---- MODULE Spec2Model ----
(***************************************************************************)
(* RecallOS job pipeline: the durable job queue (src/jobs/queue.ts), the   *)
(* pipeline processor started by startProcessor, and the shutdown path of  *)
(* the main process (src/main/main.ts), the pipeline handler with the      *)
(* content tables it fills, retention cleanup and search.                  *)
(*                                                                         *)
(* The jobs table is a function from row id to row.  A row that complete   *)
(* deleted is simply not in the domain; ids come from AUTOINCREMENT and are*)
(* never reused.  All timestamps are whole epoch seconds, as produced by   *)
(* strftime('%s','now') and Math.floor(Date.now() / 1000).                 *)
(***************************************************************************)
EXTENDS Integers, Sequences, FiniteSets, TLC

\* ---------------------------------------------------------------- bounds
MaxJobs == 2          \* rows ever inserted in one behaviour
MaxTime == 1          \* seconds the clock counts before the epoch starts to move
MaxDelay == 1         \* largest delaySec passed to enqueue
MaxFails == 5         \* fail is not called on a row whose attempts reached this
MaxLimit == 2         \* largest limitConcurrent a processor is started with
MaxChunks == 1        \* media chunks ever saved in one behaviour
MaxOut == 1           \* most frames, words or segments one tool run yields
MaxAge == 2           \* oldest startedAt a saved chunk carries, in days before now
MaxDays == 1          \* largest retention_days setting
MaxSegments == 3      \* activity segments ever inserted in one behaviour
MaxRows == 2          \* rows the content tables hold when a search is made

\* ---------------------------------------------------- program constants
DefaultMaxAttempts == 5
FailLimit == 5
BackoffCap == 60
DaySecs == 86400
FrameStepMs == 5000

JobIds == 1..MaxJobs
Delays == (-1)..MaxDelay
Procs == {1, 2}
Null == 0
ChunkIds == 1..MaxChunks
JobTypes == {"index:chunk", "ocr:frame", "stt:chunk"}
Roles == {"", "me"}

VARIABLES
  jobs,             \* the jobs table: id -> [status, attempts, created_at, next_run_at]
  lastId,           \* sqlite_sequence of the AUTOINCREMENT key
  now,              \* wall clock, seconds
  dbOpen,           \* dbOpen[p]: process p's connection is open
  limitConcurrent,  \* startProcessor's limitConcurrent; 0 before startProcessor is called
  stopped,          \* stopped[p]: startProcessor's flag
  active,           \* active[p]: startProcessor's Set of in-flight job ids
  pc,               \* pc[p]: where process p stands inside claimNext
  row,              \* row[p]: the id claimNext's SELECT returned to p
  last,             \* history: what the most recent call of q.claimNext() returned,
                    \* when, and the attempts the row then had
  held,             \* history: held[j] = claimNext returns of j since fail(j)
  since,            \* history: since[j] = claimNext returns of j since any complete/fail
  timer,            \* timer[p]: a call of loop is pending (setTimeout, or the first call)
  ret,              \* how the most recent JobQueue call that met a storage error ended
  payload,          \* jobs.type and jobs.payload_json: id -> [type, chunk_id, ts_ms, speaker]
  tables,           \* media_chunks, ocr_blocks, transcripts, fts_content, sqlite_sequence
  fts5,             \* migration 0002_fts5 was applied: fts_content and its triggers exist
  enq,              \* history: enq[c][type] = jobs of that type ever inserted for chunk c
  activity,         \* process.platform, and the tables apps and activity_segments
  asked,            \* the payload of the most recent recallos:search(Snippets) call
  found             \* what that call returned

vars == <<jobs, lastId, now, dbOpen, limitConcurrent, stopped, active, pc, row,
          last, held, since, timer, ret, payload, tables, fts5, enq, activity, asked, found>>

\* What a search call writes.
searchVars == <<asked, found>>

\* What the queue API and the processor leave alone.
storeVars == <<payload, tables, fts5, enq, searchVars>>

Min(a, b) == IF a < b THEN a ELSE b
Max(a, b) == IF a > b THEN a ELSE b

\* ------------------------------------------------------------ JobQueue
\* Migration 0004 adds jobs.next_run_at, so PRAGMA table_info finds it.
hasNextRun == TRUE

\* enqueue: the row the INSERT writes.
enqueueRow(t, delaySec) ==
  LET delay == Max(0, delaySec)
      nextRun == t + delay
  IN  [status |-> IF delay > 0 THEN "delayed" ELSE "queued",
       attempts |-> 0,
       created_at |-> t,
       next_run_at |-> IF hasNextRun THEN nextRun ELSE Null]

enqueue(js, id, t, delaySec) ==
  [j \in DOMAIN js \cup {id} |-> IF j = id THEN enqueueRow(t, delaySec) ELSE js[j]]

\* A claimNext whose WHERE clause forgets next_run_at.
eligible_ignoring_next_run(js, t, maxAttempts) ==
  {j \in DOMAIN js :
     js[j].status \in {"queued", "delayed"} /\ js[j].attempts < maxAttempts}

\* A claimNext that looks for queued rows only.
eligible_queued_only(js, t, maxAttempts) ==
  {j \in DOMAIN js :
     /\ js[j].status \in {"queued"} /\ js[j].next_run_at <= t
     /\ js[j].attempts < maxAttempts}

\* claimNext's WHERE clause.
eligible(js, t, maxAttempts) ==
  {j \in DOMAIN js :
     /\ IF hasNextRun
        THEN js[j].status \in {"queued", "delayed"} /\ js[j].next_run_at <= t
        ELSE js[j].status \in {"queued"}
     /\ js[j].attempts < maxAttempts}

\* claimNext's SELECT ... ORDER BY created_at ASC LIMIT 1: the rows it may
\* return.  created_at is the only sort key, so among rows of one second
\* the engine is free to return any.
selectNext(js, t, maxAttempts) ==
  LET e == eligible(js, t, maxAttempts)
  IN  {j \in e : \A k \in e : js[j].created_at <= js[k].created_at}

\* A claimNext whose UPDATE is lost.
markRunning_lost(js, id) == js

\* claimNext's UPDATE jobs SET status = 'running' WHERE id = ?.
markRunning(js, id) ==
  [j \in DOMAIN js |-> IF j = id THEN [js[j] EXCEPT !.status = "running"] ELSE js[j]]

\* complete: DELETE FROM jobs WHERE id = ?.
complete(js, id) == [j \in DOMAIN js \ {id} |-> js[j]]

\* A backoff computed from the attempts read, before the increment.
delaySecOf_stale(attempts) == Min(BackoffCap, 2 ^ (attempts - 1))

\* fail's backoff.
delaySecOf(attempts) == Min(BackoffCap, 2 ^ attempts)

\* A fail that gives up one attempt too late.
fail_late(js, id, t, requeue) ==
  LET attempts == (IF id \in DOMAIN js THEN js[id].attempts ELSE 0) + 1
  IN  [j \in DOMAIN js |->
        IF j # id THEN js[j]
        ELSE IF ~requeue \/ attempts > FailLimit
             THEN [js[j] EXCEPT !.status = "failed", !.attempts = attempts]
             ELSE [js[j] EXCEPT !.status = "queued", !.attempts = attempts,
                                !.next_run_at = t + delaySecOf(attempts)]]

\* fail: read attempts, then one of the three UPDATEs.
fail(js, id, t, requeue) ==
  LET attempts == (IF id \in DOMAIN js THEN js[id].attempts ELSE 0) + 1
  IN  [j \in DOMAIN js |->
        IF j # id THEN js[j]
        ELSE IF ~requeue \/ attempts >= FailLimit
             THEN [js[j] EXCEPT !.status = "failed", !.attempts = attempts]
             ELSE IF hasNextRun
                  THEN [js[j] EXCEPT !.status = "queued", !.attempts = attempts,
                                     !.next_run_at = t + delaySecOf(attempts)]
                  ELSE [js[j] EXCEPT !.status = "queued", !.attempts = attempts]]

\* A method whose body is not wrapped: the exception leaves it.
returned_uncaught(threw) == IF threw THEN "raised" ELSE "value"

\* try { ... return value } catch { return null }, the body of enqueue and
\* claimNext; complete and fail have try { ... } catch {} and return nothing.
returned(threw) == IF threw THEN "null" ELSE "value"

\* ------------------------------------------------------------- history
NoCall == [op |-> "none", id |-> Null, att |-> 0, at |-> 0]

statusOf(js, id) == IF id \in DOMAIN js THEN js[id].status ELSE "absent"
attemptsOf(js, id) == IF id \in DOMAIN js THEN js[id].attempts ELSE 0

\* The rows that are queued or delayed and whose next_run_at has come.
dueRows(js, t) ==
  {j \in DOMAIN js : js[j].status \in {"queued", "delayed"} /\ js[j].next_run_at <= t}

Call(op, id) == [op |-> op, id |-> id, att |-> attemptsOf(jobs, id), at |-> now]

Bump(n) == Min(2, n + 1)

\* ------------------------------------------------------- content tables
\* A text is one word, a word a string of letters.  OCR blocks are stored
\* word by word; a query is one term.
Words == {<<"a">>, <<"a", "b">>}

put(f, k, v) == [x \in DOMAIN f \cup {k} |-> IF x = k THEN v ELSE f[x]]

without(f, ks) == [x \in DOMAIN f \ ks |-> f[x]]

NoRows ==
  [media_chunks |-> <<>>, ocr_blocks |-> <<>>, transcripts |-> <<>>, fts_content |-> <<>>,
   seq |-> [media_chunks |-> 0, ocr_blocks |-> 0, transcripts |-> 0]]

NoneEnqueued == [c \in ChunkIds |-> [ty \in JobTypes |-> 0]]

kindOf(table) == IF table = "ocr_blocks" THEN "ocr" ELSE "transcript"

\* A trigger that writes its entry with INSERT OR REPLACE.
toFts_replacing(fts, id, text, kind, chunk, ts_ms) ==
  [ok |-> TRUE,
   fts |-> put(fts, id, [content |-> text, type |-> kind, chunk_id |-> chunk, ts_ms |-> ts_ms])]

\* The triggers ocr_to_fts and transcript_to_fts: INSERT INTO fts_content(rowid,
\* content, type, chunk_id, ts_ms) VALUES (new.id, new.text, kind, ...).  A
\* rowid the index already holds is a constraint failure.
toFts(fts, id, text, kind, chunk, ts_ms) ==
  IF id \in DOMAIN fts
  THEN [ok |-> FALSE, fts |-> fts]
  ELSE [ok |-> TRUE,
        fts |-> put(fts, id, [content |-> text, type |-> kind, chunk_id |-> chunk,
                              ts_ms |-> ts_ms])]

\* INSERT INTO ocr_blocks / transcripts of the row r, with its AFTER INSERT
\* trigger when the index exists.  The trigger runs inside the statement:
\* when it fails the statement is undone, AUTOINCREMENT's sequence included,
\* and the exception reaches the caller.  fk: the connection enforces the
\* FOREIGN KEY on chunk_id.
insertRow(t, table, r, fk) ==
  LET id == t.seq[table] + 1
      idx == IF fts5
             THEN toFts(t.fts_content, id, r.text, kindOf(table), r.chunk_id, r.ts_ms)
             ELSE [ok |-> TRUE, fts |-> t.fts_content]
  IN  IF ~idx.ok \/ (fk /\ r.chunk_id \notin DOMAIN t.media_chunks)
      THEN [ok |-> FALSE, t |-> t]
      ELSE [ok |-> TRUE,
            t |-> [t EXCEPT ![table] = put(@, id, r),
                            !.seq[table] = id,
                            !.fts_content = idx.fts]]

\* The k-th row a handler run writes.  A word of a frame carries the frame's
\* ts_ms and its own box; a transcript segment carries its own start time
\* and the job's speaker.
rowOf(table, chunk, ts_ms, speaker, text, k) ==
  IF table = "ocr_blocks"
  THEN [chunk_id |-> chunk, ts_ms |-> ts_ms, text |-> text, bbox_x |-> k]
  ELSE [chunk_id |-> chunk, ts_ms |-> (k - 1) * 1000, speaker |-> speaker, text |-> text]

\* The handlers' for loops over words and segments k..n: an INSERT each,
\* left at the first that throws; each statement is its own transaction.
RECURSIVE insertRows(_, _, _, _, _, _, _, _, _)
insertRows(t, table, chunk, ts_ms, speaker, text, k, n, fk) ==
  IF k > n THEN [ok |-> TRUE, t |-> t]
  ELSE LET r == insertRow(t, table, rowOf(table, chunk, ts_ms, speaker, text, k), fk)
       IN  IF r.ok
           THEN insertRows(r.t, table, chunk, ts_ms, speaker, text, k + 1, n, fk)
           ELSE r

\* doRetentionCleanup's loop body for one chunk: DELETE FROM ocr_blocks,
\* transcripts and media_chunks.  Nothing is deleted from fts_content.
deleteChunk(t, c) ==
  [t EXCEPT !.ocr_blocks = without(@, {i \in DOMAIN @ : @[i].chunk_id = c}),
            !.transcripts = without(@, {i \in DOMAIN @ : @[i].chunk_id = c}),
            !.media_chunks = without(@, {c})]

RECURSIVE deleteChunks(_, _)
deleteChunks(t, cs) ==
  IF cs = {} THEN t
  ELSE LET c == CHOOSE x \in cs : TRUE IN deleteChunks(deleteChunk(t, c), cs \ {c})

\* doRetentionCleanup: no setting or 0 days deletes nothing.
doRetentionCleanup(t, days, at) ==
  LET cutoff == at - days * DaySecs
      oldChunks == {c \in DOMAIN t.media_chunks : t.media_chunks[c].started_at < cutoff}
  IN  IF days = 0 THEN t ELSE deleteChunks(t, oldChunks)

\* ---------------------------------------------------- activity segments
\* ended_at IS NULL.  Timestamps are epoch seconds and never negative.
NullTime == -1

Platforms == {"win32", "linux", "darwin"}

NoActivity == [platform |-> "linux", apps |-> <<>>, segments |-> <<>>, seq |-> 0]

NoSearch == [op |-> "none"]

\* What the foreground probe reports: the app's key (empty when it has none)
\* and the window title, both strings of characters.
AppKeys == {<<>>, <<"x">>, <<"y">>}
Titles == {<<>>, <<"a">>}
Infos == [app : AppKeys, title : Titles]

\* 'unknown'
Unknown == <<"u", "n", "k", "n", "o", "w", "n">>

\* The statement of a sample that meets a storage error, if any.
SampleFaults == {"none", "apps", "select", "update", "insert"}

\* What sample makes of the probe's answer.  win32 and linux: appKey is
\* info.appId || basename(info.exe) || 'unknown'.  darwin: osascript prints
\* name, a tab and the title; the output is trimmed, an empty output ends
\* the sample, and the rest is split at the tab.
observed(platform, info) ==
  IF platform # "darwin"
  THEN [skip |-> FALSE, appKey |-> IF info.app = <<>> THEN Unknown ELSE info.app,
        windowTitle |-> info.title]
  ELSE IF info.app = <<>> /\ info.title = <<>>
       THEN [skip |-> TRUE, appKey |-> <<>>, windowTitle |-> <<>>]
       ELSE IF info.app = <<>>
            THEN [skip |-> FALSE, appKey |-> info.title, windowTitle |-> <<>>]
            ELSE [skip |-> FALSE, appKey |-> info.app, windowTitle |-> info.title]

\* SELECT id FROM apps WHERE bundle_or_exe = ?, else INSERT INTO apps and
\* last_insert_rowid(); inside try {} catch {}, so a storage error leaves
\* appId null.
upsertApp(apps, appKey, threw) ==
  IF threw THEN [apps |-> apps, appId |-> Null]
  ELSE IF appKey \in DOMAIN apps THEN [apps |-> apps, appId |-> apps[appKey]]
  ELSE LET id == Cardinality(DOMAIN apps) + 1
       IN  [apps |-> put(apps, appKey, id), appId |-> id]

\* SELECT ... FROM activity_segments ORDER BY id DESC LIMIT 1: the id of the
\* row, Null when the table is empty.
lastSegment(segs) ==
  IF DOMAIN segs = {} THEN Null ELSE CHOOSE i \in DOMAIN segs : \A j \in DOMAIN segs : j <= i

\* A sample that leaves the prior segment open.
closeSegment_skipped(segs, id, t) == segs

\* UPDATE activity_segments SET ended_at = ? WHERE id = ?
closeSegment(segs, id, t) == [segs EXCEPT ![id].ended_at = t]

\* UPDATE activity_segments SET ended_at = NULL WHERE id = ?
reopenSegment(segs, id) == [segs EXCEPT ![id].ended_at = NullTime]

\* The try block around the segment statements: merge with the last segment
\* when app and title are the same, else close it and start a new one.  The
\* statement that throws ends the block.
mergeOrStart(a, appId, windowTitle, t, fault) ==
  LET segs == a.segments
      lastSeg == lastSegment(segs)
      same == lastSeg # Null /\ segs[lastSeg].app_id = appId /\ segs[lastSeg].window_title = windowTitle
      closed == IF lastSeg # Null /\ segs[lastSeg].ended_at = NullTime
                THEN closeSegment(segs, lastSeg, t) ELSE segs
      id == a.seq + 1
  IN  IF fault = "select" THEN a
      ELSE IF same
      THEN IF segs[lastSeg].ended_at # NullTime /\ fault # "update"
           THEN [a EXCEPT !.segments = reopenSegment(segs, lastSeg)]
           ELSE a
      ELSE IF lastSeg # Null /\ segs[lastSeg].ended_at = NullTime /\ fault = "update" THEN a
      ELSE IF fault = "insert" THEN [a EXCEPT !.segments = closed]
      ELSE [a EXCEPT !.segments = put(closed, id, [app_id |-> appId,
                                                    window_title |-> windowTitle,
                                                    started_at |-> t,
                                                    ended_at |-> NullTime]),
                     !.seq = id]

\* sample: one run of the sampler's callback from the probe's answer on.
\* win32 and linux return when the app's id is not known; darwin goes on
\* with a null app_id.
sample(a, info, t, fault) ==
  LET o == observed(a.platform, info)
      u == upsertApp(a.apps, o.appKey, fault = "apps")
      b == [a EXCEPT !.apps = u.apps]
  IN  IF o.skip THEN a
      ELSE IF u.appId = Null /\ a.platform # "darwin" THEN b
      ELSE mergeOrStart(b, u.appId, o.windowTitle, t, fault)

\* before-quit: UPDATE activity_segments SET ended_at = ? WHERE ended_at IS
\* NULL, inside try {} catch {}.
beforeQuit(a, t, threw) ==
  IF threw THEN a
  ELSE [a EXCEPT !.segments =
          [i \in DOMAIN @ |-> IF @[i].ended_at = NullTime
                              THEN [@[i] EXCEPT !.ended_at = t] ELSE @[i]]]

\* --------------------------------------------------------------- search
\* A string is a sequence of characters.  The letters that occur in both
\* cases are a, b, d, n, o and r.
Quote == "\""

AND == <<"A", "N", "D">>
OR == <<"O", "R">>

toUpperCaseChar(c) ==
  CASE c = "a" -> "A" [] c = "b" -> "B" [] c = "d" -> "D"
    [] c = "n" -> "N" [] c = "o" -> "O" [] c = "r" -> "R" [] OTHER -> c

toUpperCase(s) == [i \in 1..Len(s) |-> toUpperCaseChar(s[i])]

RECURSIVE trimStart(_)
trimStart(s) == IF s # <<>> /\ Head(s) = " " THEN trimStart(Tail(s)) ELSE s

RECURSIVE trimEnd(_)
trimEnd(s) ==
  IF s # <<>> /\ s[Len(s)] = " " THEN trimEnd(SubSeq(s, 1, Len(s) - 1)) ELSE s

trim(s) == trimEnd(trimStart(s))

\* The index of the first c in s at or after j; Len(s) + 1 when there is none.
RECURSIVE indexFrom(_, _, _)
indexFrom(s, c, j) == IF j > Len(s) \/ s[j] = c THEN j ELSE indexFrom(s, c, j + 1)

\* s.split(' ') without the empty pieces.
RECURSIVE wordsOf(_)
wordsOf(s) ==
  LET t == trimStart(s)
      j == indexFrom(t, " ", 1)
  IN  IF t = <<>> THEN <<>> ELSE <<SubSeq(t, 1, j - 1)>> \o wordsOf(SubSeq(t, j, Len(t)))

\* q occurs in w, letter for letter.
isInfix(q, w) ==
  \E i \in 0..(Len(w) - Len(q)) : \A k \in 1..Len(q) : w[i + k] = q[k]

\* escapeLike: a backslash before each backslash, % and _.
RECURSIVE escapeLike(_)
escapeLike(s) ==
  IF s = <<>> THEN <<>>
  ELSE (IF Head(s) \in {"\\", "%", "_"} THEN <<"\\", Head(s)>> ELSE <<Head(s)>>)
       \o escapeLike(Tail(s))

\* text LIKE pat ESCAPE '\': % is any run of characters, _ any one character,
\* a character after the escape stands for itself; letters match without
\* regard to case.
RECURSIVE like(_, _)
like(text, pat) ==
  IF pat = <<>> THEN text = <<>>
  ELSE IF Head(pat) = "%"
  THEN \E k \in 0..Len(text) : like(SubSeq(text, k + 1, Len(text)), Tail(pat))
  ELSE IF Head(pat) = "_" THEN text # <<>> /\ like(Tail(text), Tail(pat))
  ELSE IF Head(pat) = "\\" /\ Len(pat) > 1
  THEN /\ text # <<>>
       /\ toUpperCaseChar(Head(text)) = toUpperCaseChar(pat[2])
       /\ like(Tail(text), Tail(Tail(pat)))
  ELSE /\ text # <<>>
       /\ toUpperCaseChar(Head(text)) = toUpperCaseChar(Head(pat))
       /\ like(Tail(text), Tail(pat))

\* `%${escapeLike(s)}%`
containing(s) == <<"%">> \o escapeLike(s) \o <<"%">>

\* parseQuery's while loop from index i on: a quoted run is pushed trimmed, a
\* bare run is pushed as 'AND' / 'OR' when that is its upper case, trimmed
\* otherwise.
RECURSIVE tokensFrom(_, _)
tokensFrom(input, i) ==
  IF i > Len(input) THEN <<>>
  ELSE IF input[i] = " " THEN tokensFrom(input, i + 1)
  ELSE IF input[i] = Quote
  THEN LET j == indexFrom(input, Quote, i + 1)
       IN  <<trim(SubSeq(input, i + 1, j - 1))>>
           \o tokensFrom(input, IF j <= Len(input) THEN j + 1 ELSE j)
  ELSE LET j == indexFrom(input, " ", i)
           buf == SubSeq(input, i, j - 1)
           up == toUpperCase(buf)
       IN  <<IF up = AND \/ up = OR THEN up ELSE trim(buf)>> \o tokensFrom(input, j)

\* parseQuery's for loop: 'OR' opens a group, 'AND' is skipped, any other
\* non-empty token joins the current group.
RECURSIVE splitGroups(_)
splitGroups(tokens) ==
  IF tokens = <<>> THEN << <<>> >>
  ELSE LET t == Head(tokens)
           rest == splitGroups(Tail(tokens))
       IN  IF t = OR THEN << <<>> >> \o rest
           ELSE IF t = AND \/ t = <<>> THEN rest
           ELSE << <<t>> \o Head(rest) >> \o Tail(rest)

\* parseQuery: the groups of the disjunctive normal form, empty ones removed.
parseQuery(input) == SelectSeq(splitGroups(tokensFrom(input, 1)), LAMBDA g : g # <<>>)

\* exactPhrase: q.match(/"([^"]+)"/), the first quoted run that is not empty;
\* empty when there is none.
exactPhrase(q) ==
  LET starts == {i \in 1..Len(q) :
                   q[i] = Quote /\ indexFrom(q, Quote, i + 1) \in (i + 2)..Len(q)}
      i == CHOOSE x \in starts : \A y \in starts : x <= y
  IN  IF starts = {} THEN <<>> ELSE SubSeq(q, i + 1, indexFrom(q, Quote, i + 1) - 1)

\* tok.endsWith('*')
isPrefix(tok) == tok # <<>> /\ tok[Len(tok)] = "*"

\* buildWhere's pat for a token: `${esc}%` for a prefix token, `%${esc}%`
\* for any other.
patOf(tok) ==
  IF isPrefix(tok) THEN escapeLike(SubSeq(tok, 1, Len(tok) - 1)) \o <<"%">>
  ELSE containing(tok)

\* recallos:search's payload: q, type ('ocr' | 'transcript'), speaker, from /
\* to (epoch seconds), app (apps.bundle_or_exe) and window (a piece of a
\* window title).  An absent field, 0 and the empty string are the same.
NoFilter ==
  [type |-> "", speaker |-> "", from |-> 0, to |-> 0, app |-> <<>>, window |-> <<>>]
Filters ==
  [type : {"", "ocr", "transcript"}, speaker : {"", "me"}, from : {0, 1}, to : {0, 1},
   app : {<<>>, <<"x">>}, window : {<<>>, <<"a">>}]

\* applyDateJoin: the INNER JOIN on media_chunks is written only for a date,
\* app or window filter.
applyDateJoin(f) == f.from # 0 \/ f.to # 0 \/ f.app # <<>> \/ f.window # <<>>

\* applyDateWhere
applyDateWhere(f, started_at) ==
  /\ f.from # 0 => started_at >= f.from
  /\ f.to # 0 => started_at <= f.to

\* exactPhraseLike, '' without a quoted phrase.
exactPhraseLike(q) == IF exactPhrase(q) = <<>> THEN <<>> ELSE containing(exactPhrase(q))

\* windowBoostLike: `%${escapeLike(exactPhrase || q)}%`
windowBoostLike(q) == containing(IF exactPhrase(q) # <<>> THEN exactPhrase(q) ELSE q)

\* hitSecExpr, (mc.started_at + (ts_ms/1000.0)), in milliseconds.
hitMs(started_at, ts_ms) == started_at * 1000 + ts_ms

\* seg.started_at <= hitSec AND (seg.ended_at IS NULL OR seg.ended_at >= hitSec)
covers(seg, hit) ==
  /\ seg.started_at * 1000 <= hit
  /\ seg.ended_at = NullTime \/ seg.ended_at * 1000 >= hit

\* The score's CASE WHEN EXISTS (SELECT 1 FROM activity_segments seg2 ...
\* AND seg2.window_title LIKE ?): pat is what the placeholder is bound to.
windowBoost(a, hit, pat) ==
  \E i \in DOMAIN a.segments :
    covers(a.segments[i], hit) /\ like(a.segments[i].window_title, pat)

\* AND EXISTS (SELECT 1 FROM activity_segments seg INNER JOIN apps a ON a.id =
\* seg.app_id WHERE ... AND a.bundle_or_exe = ? AND seg.window_title LIKE ?),
\* each of the last two written only when its filter is given; app and
\* window are what the placeholders are bound to.
segmentFilter(a, f, hit, app, window) ==
  (f.app # <<>> \/ f.window # <<>>) =>
    \E i \in DOMAIN a.segments, key \in DOMAIN a.apps :
      /\ covers(a.segments[i], hit)
      /\ a.apps[key] = a.segments[i].app_id
      /\ f.app # <<>> => key = app
      /\ f.window # <<>> => like(a.segments[i].window_title, window)

\* Scores are exact: a whole number of tenths plus the fraction num / den of a
\* tenth.  The recency term (1.0 / (1.0 + age / 86400.0)) * 0.7 of a hit age
\* milliseconds old is 604800000 / (86400000 + age) tenths.
Score(tenths, num, den) == [tenths |-> tenths, num |-> num, den |-> den]

recency(hit) == Score(0, 7 * DaySecs * 1000, DaySecs * 1000 + (now * 1000 - hit))

plus(s, tenths) == [s EXCEPT !.tenths = @ + tenths]

\* a / b < c / d for a, c >= 0 and b, d > 0, by the whole parts and then the
\* remainders, so that no product is formed.
RECURSIVE fracLess(_, _, _, _)
fracLess(a, b, c, d) ==
  IF a \div b # c \div d THEN a \div b < c \div d
  ELSE IF c % d = 0 THEN FALSE
  ELSE IF a % b = 0 THEN TRUE
  ELSE fracLess(d, c % d, b, a % b)

scoreLess(s, u) ==
  LET sw == s.tenths + s.num \div s.den
      uw == u.tenths + u.num \div u.den
  IN  IF sw # uw THEN sw < uw ELSE fracLess(s.num % s.den, s.den, u.num % u.den, u.den)

\* ---- the FTS5 branch
\* FTS5's reading of q: a quoted run is a phrase of its words, a bare AND or
\* OR in capitals is an operator, any other bare run is a word, a prefix
\* when it ends in *.
Phrase(op, words, prefix) == [op |-> op, words |-> words, prefix |-> prefix]

RECURSIVE ftsTokensFrom(_, _)
ftsTokensFrom(input, i) ==
  IF i > Len(input) THEN <<>>
  ELSE IF input[i] = " " THEN ftsTokensFrom(input, i + 1)
  ELSE IF input[i] = Quote
  THEN LET j == indexFrom(input, Quote, i + 1)
       IN  <<Phrase("", wordsOf(SubSeq(input, i + 1, j - 1)), FALSE)>>
           \o ftsTokensFrom(input, j + 1)
  ELSE LET j == indexFrom(input, " ", i)
           buf == SubSeq(input, i, j - 1)
       IN  <<IF buf = AND THEN Phrase("AND", <<>>, FALSE)
             ELSE IF buf = OR THEN Phrase("OR", <<>>, FALSE)
             ELSE IF isPrefix(buf) THEN Phrase("", <<SubSeq(buf, 1, Len(buf) - 1)>>, TRUE)
             ELSE Phrase("", <<buf>>, FALSE)>>
           \o ftsTokensFrom(input, j)

\* AND binds tighter than OR, and words side by side are ANDed.
RECURSIVE ftsSplit(_)
ftsSplit(tokens) ==
  IF tokens = <<>> THEN << <<>> >>
  ELSE LET t == Head(tokens)
           rest == ftsSplit(Tail(tokens))
       IN  IF t.op = "OR" THEN << <<>> >> \o rest
           ELSE IF t.op = "AND" THEN rest
           ELSE << <<t>> \o Head(rest) >> \o Tail(rest)

ftsGroups(q) == ftsSplit(ftsTokensFrom(q, 1))

\* fts5: syntax error, for a quote without its pair and for an operator
\* without an operand.
ftsThrows(q) ==
  \/ Cardinality({i \in 1..Len(q) : q[i] = Quote}) % 2 = 1
  \/ \E k \in 1..Len(ftsGroups(q)) : ftsGroups(q)[k] = <<>>
  \/ \E k \in 1..Len(ftsTokensFrom(q, 1)) :
       LET t == ftsTokensFrom(q, 1)[k]
       IN  \/ t.op = "" /\ t.words = <<>>
           \/ t.op = "AND" /\ (k = 1 \/ k = Len(ftsTokensFrom(q, 1))
                               \/ ftsTokensFrom(q, 1)[k + 1].op # "")

\* The phrase p stands in the words ws, the tokenizer folding case.
hasPhrase(ws, p) ==
  \E i \in 0..(Len(ws) - Len(p.words)) :
    \A k \in 1..Len(p.words) :
      LET w == toUpperCase(ws[i + k])
          pw == toUpperCase(p.words[k])
      IN  IF p.prefix THEN Len(pw) <= Len(w) /\ SubSeq(w, 1, Len(pw)) = pw ELSE w = pw

\* fts_content MATCH q on an entry's content.  (The entry's other columns
\* hold 'ocr', 'transcript' and numbers, which no query here names.)
match(content, q) ==
  \E k \in 1..Len(ftsGroups(q)) :
    \A n \in 1..Len(ftsGroups(q)[k]) : hasPhrase(wordsOf(content), ftsGroups(q)[k][n])

\* A row of the result: the selected columns and score; parts keeps the
\* score's terms apart (relevance -bm25 or the per-token sum, and whether the
\* window and the phrase terms were added).
Row(rowid, content, type, chunk, ts_ms, rec, relevance, window, phrase) ==
  [rowid |-> rowid, content |-> content, type |-> type, chunk_id |-> chunk, ts_ms |-> ts_ms,
   score |-> plus(rec, relevance + (IF window THEN 3 ELSE 0) + (IF phrase THEN 5 ELSE 0)),
   parts |-> [recency |-> rec, relevance |-> relevance, window |-> window, phrase |-> phrase]]

NoRecency == Score(0, 0, 1)

\* The FTS5 branch's three statements.  With a speaker: fts_content INNER
\* JOIN transcripts t ON t.id = f.rowid AND f.type = 'transcript' INNER JOIN
\* media_chunks, hit time from t.ts_ms, no type filter.  Else with a date,
\* app or window filter: INNER JOIN media_chunks.  Else LEFT JOIN
\* media_chunks, and an entry without its chunk has no recency and no window
\* term.  args are pushed in the order of the placeholders.  bm25[r] is
\* -bm25(f) of entry r for q, in tenths.
indexedRows(t, a, q, f, bm25) ==
  LET boostLike == IF f.window # <<>> THEN containing(f.window) ELSE exactPhraseLike(q)
      joined(r) == t.fts_content[r].chunk_id \in DOMAIN t.media_chunks
      hit(r) == hitMs(t.media_chunks[t.fts_content[r].chunk_id].started_at,
                      IF f.speaker # "" THEN t.transcripts[r].ts_ms
                      ELSE t.fts_content[r].ts_ms)
      selected(r) ==
        LET e == t.fts_content[r]
        IN  /\ match(e.content, q)
            /\ IF f.speaker # ""
               THEN /\ e.type = "transcript"
                    /\ r \in DOMAIN t.transcripts
                    /\ joined(r)
                    /\ t.transcripts[r].speaker = f.speaker
                    /\ applyDateWhere(f, t.media_chunks[e.chunk_id].started_at)
                    /\ segmentFilter(a, f, hit(r), f.app, containing(f.window))
               ELSE /\ f.type # "" => e.type = f.type
                    /\ applyDateJoin(f) =>
                         /\ joined(r)
                         /\ applyDateWhere(f, t.media_chunks[e.chunk_id].started_at)
                         /\ segmentFilter(a, f, hit(r), f.app, containing(f.window))
      rowOfEntry(r) ==
        LET e == t.fts_content[r]
        IN  Row(r, e.content, e.type, e.chunk_id, e.ts_ms,
                IF joined(r) THEN recency(hit(r)) ELSE NoRecency,
                bm25[r],
                joined(r) /\ boostLike # <<>> /\ windowBoost(a, hit(r), boostLike),
                exactPhraseLike(q) # <<>> /\ like(e.content, exactPhraseLike(q)))
  IN  {rowOfEntry(r) : r \in {x \in DOMAIN t.fts_content : selected(x)}}

\* ---- the LIKE branch
RECURSIVE flatten(_)
flatten(groups) == IF groups = <<>> THEN <<>> ELSE Head(groups) \o flatten(Tail(groups))

\* Math.max(1, Math.min(100, Number(payload?.limit || 20))) and offset, for
\* a payload that names neither.
DefaultLimit == 20
DefaultOffset == 0

\* The select on the table of alias ('o' ocr_blocks, 't' transcripts) is
\* part of the statement.
selects(alias, f) == f.type = "" \/ f.type = (IF alias = "o" THEN "ocr" ELSE "transcript")

tableOfAlias(alias) == IF alias = "o" THEN "ocr_blocks" ELSE "transcripts"

\* The score's window pattern: windowLike, else windowBoostLike.
boostArg(q, f) == IF f.window # <<>> THEN containing(f.window) ELSE windowBoostLike(q)

phraseArgs(q) == IF exactPhraseLike(q) # <<>> THEN <<exactPhraseLike(q)>> ELSE <<>>

tokenArgs(q) == [i \in 1..Len(flatten(parseQuery(q))) |-> patOf(flatten(parseQuery(q))[i])]

\* buildWhere's bind: a pattern per token, then the speaker for alias 't'.
bind(alias, q, f) ==
  tokenArgs(q) \o (IF alias = "t" /\ f.speaker # "" THEN <<f.speaker>> ELSE <<>>)

filterArgs(f) ==
  (IF f.app # <<>> THEN <<f.app>> ELSE <<>>)
  \o (IF f.window # <<>> THEN <<containing(f.window)>> ELSE <<>>)

\* The ? of one select in the order they stand in its SQL text, each as the
\* value it is written for: the window term, the phrase term, the per-token
\* terms of the score, then WHERE and the segment filter.
placeholders(alias, q, f) ==
  <<boostArg(q, f)>> \o phraseArgs(q) \o tokenArgs(q) \o bind(alias, q, f) \o filterArgs(f)

\* What one select pushes to argsAll, in the order of the pushes: the
\* per-token patterns while the template literal is evaluated, then the
\* window and phrase patterns, bind and the filter values.
pushed(alias, q, f) ==
  tokenArgs(q) \o <<boostArg(q, f)>> \o phraseArgs(q) \o bind(alias, q, f) \o filterArgs(f)

\* The ? of the whole statement in the order of its text, LIMIT ? OFFSET ?
\* last.
placeholdersAll(q, f) ==
  (IF selects("o", f) THEN placeholders("o", q, f) ELSE <<>>)
  \o (IF selects("t", f) THEN placeholders("t", q, f) ELSE <<>>)
  \o <<DefaultLimit, DefaultOffset>>

\* argsAll as passed to all(...argsAll).
argsAll(q, f) ==
  (IF selects("o", f) THEN pushed("o", q, f) ELSE <<>>)
  \o (IF selects("t", f) THEN pushed("t", q, f) ELSE <<>>)
  \o <<DefaultLimit, DefaultOffset>>

\* One select of the statement, its k-th ? bound to args[base + k].
fallbackSelect(t, a, alias, q, f, args, base) ==
  LET groups == parseQuery(q)
      n == Len(flatten(groups))
      ph == Len(phraseArgs(q))
      sp == IF alias = "t" /\ f.speaker # "" THEN 1 ELSE 0
      ap == IF f.app # <<>> THEN 1 ELSE 0
      before(k) == Len(flatten(SubSeq(groups, 1, k - 1)))
      table == t[tableOfAlias(alias)]
      hit(r) == hitMs(t.media_chunks[table[r].chunk_id].started_at, table[r].ts_ms)
      where(r) ==
        /\ groups # <<>> =>
             \E k \in 1..Len(groups) :
               \A i \in 1..Len(groups[k]) :
                 like(table[r].text, args[base + 1 + ph + n + before(k) + i])
        /\ sp = 1 => table[r].speaker = args[base + 1 + ph + n + n + 1]
      selected(r) ==
        /\ table[r].chunk_id \in DOMAIN t.media_chunks
        /\ where(r)
        /\ applyDateWhere(f, t.media_chunks[table[r].chunk_id].started_at)
        /\ segmentFilter(a, f, hit(r),
                         IF ap = 1 THEN args[base + 1 + ph + n + n + sp + 1] ELSE <<>>,
                         IF f.window # <<>> THEN args[base + 1 + ph + n + n + sp + ap + 1]
                         ELSE <<>>)
      rowOfBase(r) ==
        Row(r, table[r].text, kindOf(tableOfAlias(alias)), table[r].chunk_id, table[r].ts_ms,
            recency(hit(r)),
            Cardinality({i \in 1..n : like(table[r].text, args[base + 1 + ph + i])}),
            windowBoost(a, hit(r), args[base + 1]),
            ph = 1 /\ like(table[r].text, args[base + 2]))
  IN  {rowOfBase(r) : r \in {x \in DOMAIN table : selected(x)}}

\* selects.join(' UNION ALL '), bound to args.
fallbackUnion(t, a, q, f, args) ==
  (IF selects("o", f) THEN fallbackSelect(t, a, "o", q, f, args, 0) ELSE {})
  \cup (IF selects("t", f)
        THEN fallbackSelect(t, a, "t", q, f, args,
                            IF selects("o", f) THEN Len(placeholders("o", q, f)) ELSE 0)
        ELSE {})

\* ---- ORDER BY, LIMIT and the handler
sameScore(x, y) == ~scoreLess(x.score, y.score) /\ ~scoreLess(y.score, x.score)

\* ORDER BY score DESC, f.rowid DESC puts x before y.
indexedOrder(x, y) ==
  scoreLess(y.score, x.score) \/ (sameScore(x, y) /\ x.rowid > y.rowid)

\* ORDER BY score DESC, ts_ms DESC puts x before y.
fallbackOrder(x, y) ==
  scoreLess(y.score, x.score) \/ (sameScore(x, y) /\ x.ts_ms > y.ts_ms)

\* The sequences ORDER BY may return: each row once, none after a row it is
\* put before; rows the sort keys do not tell apart come in any order.
orderings(rows, isFallback) ==
  LET precedes(x, y) == IF isFallback THEN fallbackOrder(x, y) ELSE indexedOrder(x, y)
  IN  {s \in [1..Cardinality(rows) -> rows] :
         /\ \A i, j \in DOMAIN s : i # j => s[i] # s[j]
         /\ \A i, j \in DOMAIN s : i < j => ~precedes(s[j], s[i])}

\* LIMIT ? OFFSET ?
limited(s) == SubSeq(s, DefaultOffset + 1, Min(Len(s), DefaultOffset + DefaultLimit))

\* Whether the handler's first try block returns: the index exists and FTS5
\* accepts q.
indexed(q) == fts5 /\ ~ftsThrows(trim(q))

\* recallos:search: what the handler may return for the payload (q, f).  An
\* empty q returns [] at once; the LIKE branch runs when the FTS5 branch
\* throws, and returns [] when its own statement throws: its score names
\* mc.id and mc.started_at in every case, while the join that defines mc is
\* written by applyDateJoin only (no such column: mc.id).
results(t, a, q, f, bm25) ==
  IF trim(q) = <<>> THEN {<<>>}
  ELSE IF indexed(q)
  THEN {limited(s) : s \in orderings(indexedRows(t, a, trim(q), f, bm25), FALSE)}
  ELSE IF ~applyDateJoin(f) THEN {<<>>}
  ELSE {limited(s) :
          s \in orderings(fallbackUnion(t, a, trim(q), f, argsAll(trim(q), f)), TRUE)}

Hit(r) == [rowid |-> r.rowid, content |-> r.content, type |-> r.type, chunk_id |-> r.chunk_id]

NoRank(t) == [r \in DOMAIN t.fts_content |-> 0]

\* The rows of the FTS5 branch, of the LIKE branch and of the handler,
\* without their scores.
searchIndexed(t, q, f) == {Hit(r) : r \in indexedRows(t, activity, trim(q), f, NoRank(t))}

searchFallback(t, q, f) ==
  IF ~applyDateJoin(f) THEN {}
  ELSE {Hit(r) : r \in fallbackUnion(t, activity, trim(q), f, argsAll(trim(q), f))}

search(t, q, f) == IF indexed(q) THEN searchIndexed(t, q, f) ELSE searchFallback(t, q, f)

\* ------------------------------------------------------------- snippets
\* recallos:searchSnippets.  Offsets into a string count from 0 and a range
\* <<s, e>> ends before e, as in the code.
slice(s, a, b) == SubSeq(s, a + 1, b)

\* The one character U+2026.
Ellipsis == "..."

\* ' … '
Glue == <<" ", Ellipsis, " ">>

\* tokens.slice(0, 16)
MaxTokens == 16

\* Math.max(30, Math.min(200, Number(payload?.windowChars || 80)))
windowCharsOf(n) == Max(30, Min(200, IF n = 0 THEN 80 ELSE n))

\* The index at or after i where /"([^"]+)"/ next matches in input, 0 when
\* it does not.
quotedAt(input, i) ==
  LET starts == {k \in i..Len(input) :
                   input[k] = Quote /\ indexFrom(input, Quote, k + 1) \in (k + 2)..Len(input)}
  IN  IF starts = {} THEN 0 ELSE CHOOSE k \in starts : \A n \in starts : k <= n

\* phraseRe.exec in a loop: the quoted runs of input from index i on.
RECURSIVE phrasesFrom(_, _)
phrasesFrom(input, i) ==
  LET k == quotedAt(input, i)
      j == indexFrom(input, Quote, k + 1)
  IN  IF k = 0 THEN <<>> ELSE <<SubSeq(input, k + 1, j - 1)>> \o phrasesFrom(input, j + 1)

\* input.replace(/"[^"]+"/g, ' ') from index i on.
RECURSIVE scrubFrom(_, _)
scrubFrom(input, i) ==
  LET k == quotedAt(input, i)
      j == indexFrom(input, Quote, k + 1)
  IN  IF k = 0 THEN SubSeq(input, i, Len(input))
      ELSE SubSeq(input, i, k - 1) \o <<" ">> \o scrubFrom(input, j + 1)

Token(t, prefix, phrase) == [t |-> t, prefix |-> prefix, phrase |-> phrase]

\* The token a bare run of the scrubbed query stands for; AND, OR and a lone
\* * stand for none (an empty t).
bareToken(raw) ==
  IF toUpperCase(raw) = AND \/ toUpperCase(raw) = OR THEN Token(<<>>, FALSE, FALSE)
  ELSE IF isPrefix(raw) THEN Token(trim(SubSeq(raw, 1, Len(raw) - 1)), TRUE, FALSE)
  ELSE Token(trim(raw), FALSE, FALSE)

\* The keys of seen: 'p:' or 't:' and the text in one case, with the * of a
\* prefix.
sameKey(a, b) ==
  a.phrase = b.phrase /\ a.prefix = b.prefix /\ toUpperCase(a.t) = toUpperCase(b.t)

\* tokens.push for each candidate that is not empty and not seen.
RECURSIVE pushNew(_, _)
pushNew(tokens, cands) ==
  IF cands = <<>> THEN tokens
  ELSE IF Head(cands).t = <<>> \/ \E k \in 1..Len(tokens) : sameKey(tokens[k], Head(cands))
  THEN pushNew(tokens, Tail(cands))
  ELSE pushNew(Append(tokens, Head(cands)), Tail(cands))

\* extractTokens: the quoted phrases first, then the bare words of what is
\* left, each once, at most 16.
extractTokens(input) ==
  LET phrases == phrasesFrom(input, 1)
      bare == wordsOf(scrubFrom(input, 1))
      all == pushNew(<<>>, [k \in 1..Len(phrases) |-> Token(trim(phrases[k]), FALSE, TRUE)]
                           \o [k \in 1..Len(bare) |-> bareToken(bare[k])])
  IN  SubSeq(all, 1, Min(MaxTokens, Len(all)))

\* The token's RegExp (escapeReg(s), flags 'gi') matches text at offset p.
matchAt(text, tk, p) ==
  /\ p + Len(tk.t) <= Len(text)
  /\ \A k \in 1..Len(tk.t) : toUpperCaseChar(text[p + k]) = toUpperCaseChar(tk.t[k])

\* Where that match ends: a prefix token's \S* takes what follows up to the
\* next blank.
matchEnd(text, tk, p) ==
  IF tk.prefix THEN indexFrom(text, " ", p + Len(tk.t) + 1) - 1 ELSE p + Len(tk.t)

\* while ((m = re.exec(text)) !== null) ranges.push(...), lastIndex at from.
RECURSIVE matchesFrom(_, _, _)
matchesFrom(text, tk, from) ==
  LET ps == {p \in from..(Len(text) - Len(tk.t)) : matchAt(text, tk, p)}
      p == CHOOSE x \in ps : \A y \in ps : x <= y
  IN  IF ps = {} THEN <<>>
      ELSE << <<p, matchEnd(text, tk, p)>> >> \o matchesFrom(text, tk, matchEnd(text, tk, p))

\* highlightAll's for loop over the tokens: all ranges, in the order pushed.
RECURSIVE rangesOf(_, _)
rangesOf(text, tokens) ==
  IF tokens = <<>> THEN <<>>
  ELSE matchesFrom(text, Head(tokens), 0) \o rangesOf(text, Tail(tokens))

\* ranges.sort((a, b) => a[0] - b[0]); the sort is stable.
RECURSIVE sortByStart(_)
sortByStart(ranges) ==
  IF ranges = <<>> THEN <<>>
  ELSE LET r == ranges[Len(ranges)]
           sorted == sortByStart(SubSeq(ranges, 1, Len(ranges) - 1))
           n == Cardinality({k \in 1..Len(sorted) : sorted[k][1] <= r[1]})
       IN  SubSeq(sorted, 1, n) \o <<r>> \o SubSeq(sorted, n + 1, Len(sorted))

\* mergeRanges's for loop: a range that starts at or before the end of the
\* last one kept extends it, any other is kept.
RECURSIVE sweep(_, _)
sweep(out, rest) ==
  IF rest = <<>> THEN out
  ELSE IF Head(rest)[1] <= out[Len(out)][2]
  THEN sweep([out EXCEPT ![Len(out)][2] = Max(@, Head(rest)[2])], Tail(rest))
  ELSE sweep(Append(out, Head(rest)), Tail(rest))

\* The sweep over the ranges as they were pushed.
mergeRanges_unsorted(ranges) ==
  IF ranges = <<>> THEN ranges ELSE sweep(<<Head(ranges)>>, Tail(ranges))

\* mergeRanges
mergeRanges(ranges) ==
  IF ranges = <<>> THEN ranges
  ELSE sweep(<<Head(sortByStart(ranges))>>, Tail(sortByStart(ranges)))

\* highlightAll's last loop: the text with [ ] around each merged range.
RECURSIVE bracketFrom(_, _, _)
bracketFrom(text, merged, pos) ==
  IF merged = <<>> THEN slice(text, pos, Len(text))
  ELSE slice(text, pos, Head(merged)[1])
       \o <<"[">> \o slice(text, Head(merged)[1], Head(merged)[2]) \o <<"]">>
       \o bracketFrom(text, Tail(merged), Head(merged)[2])

\* highlightAll
highlightAll(text, tokens) ==
  IF tokens = <<>> \/ text = <<>> \/ rangesOf(text, tokens) = <<>> THEN text
  ELSE bracketFrom(text, mergeRanges(rangesOf(text, tokens)), 0)

\* SELECT text FROM table WHERE chunk_id = ? AND ts_ms BETWEEN ? AND ? ORDER
\* BY ts_ms: the ids of the rows, those of one ts_ms by id.
RECURSIVE inTimeOrder(_, _)
inTimeOrder(table, ids) ==
  IF ids = {} THEN <<>>
  ELSE LET i == CHOOSE x \in ids :
                  \A y \in ids : \/ table[x].ts_ms < table[y].ts_ms
                                 \/ table[x].ts_ms = table[y].ts_ms /\ x <= y
       IN  <<i>> \o inTimeOrder(table, ids \ {i})

\* rowsCtx.map(r => String(r.text || '')).join(glue)
RECURSIVE joinedTexts(_, _)
joinedTexts(table, ids) ==
  IF ids = <<>> THEN <<>>
  ELSE IF Len(ids) = 1 THEN table[Head(ids)].text
  ELSE table[Head(ids)].text \o Glue \o joinedTexts(table, Tail(ids))

\* combinedRaw for the hit r with windowSecs seconds to either side.
combinedRaw(t, r, windowSecs) ==
  LET table == t[IF r.type = "transcript" THEN "transcripts" ELSE "ocr_blocks"]
      start == Max(0, r.ts_ms - windowSecs * 1000)
      end   == r.ts_ms + windowSecs * 1000
      rowsCtx == {i \in DOMAIN table :
                    /\ table[i].chunk_id = r.chunk_id
                    /\ table[i].ts_ms >= start
                    /\ table[i].ts_ms <= end}
  IN  joinedTexts(table, inTimeOrder(table, rowsCtx))

\* highlighted.indexOf('['), -1 when there is none.
firstBracket(s) == IF indexFrom(s, "[", 1) > Len(s) THEN -1 ELSE indexFrom(s, "[", 1) - 1

\* The cut to about 2 * windowChars around the first highlight.
trimmed(highlighted, windowChars) ==
  LET first == firstBracket(highlighted)
      startCut == Max(0, first - windowChars)
      endCut == Min(Len(highlighted), first + windowChars)
  IN  IF Len(highlighted) <= windowChars * 2 THEN highlighted
      ELSE IF first < 0 THEN slice(highlighted, 0, windowChars * 2) \o <<" ", Ellipsis>>
      ELSE (IF startCut > 0 THEN <<Ellipsis, " ">> ELSE <<>>)
           \o slice(highlighted, startCut, endCut)
           \o (IF endCut < Len(highlighted) THEN <<" ", Ellipsis>> ELSE <<>>)

\* buildTimeSnippet: null without windowSecs and without rows.
buildTimeSnippet(t, r, q, windowSecs, windowChars) ==
  IF windowSecs = 0 \/ combinedRaw(t, r, windowSecs) = <<>>
  THEN [isNull |-> TRUE, snippet |-> <<>>]
  ELSE [isNull |-> FALSE,
        snippet |-> trimmed(highlightAll(combinedRaw(t, r, windowSecs), extractTokens(q)),
                            windowChars)]

\* ------------------------------------------------------------- Init
Init ==
  /\ jobs = <<>>
  /\ lastId = 0
  /\ now = 0
  /\ dbOpen = [p \in Procs |-> TRUE]
  /\ limitConcurrent = 0
  /\ stopped = [p \in Procs |-> FALSE]
  /\ active = [p \in Procs |-> {}]
  /\ pc = [p \in Procs |-> "idle"]
  /\ row = [p \in Procs |-> Null]
  /\ last = NoCall
  /\ held = [j \in JobIds |-> 0]
  /\ since = [j \in JobIds |-> 0]
  /\ timer = [p \in Procs |-> FALSE]
  /\ ret = "none"
  /\ payload = <<>>
  /\ tables = NoRows
  /\ fts5 = TRUE
  /\ enq = NoneEnqueued
  /\ activity = NoActivity
  /\ asked = NoSearch
  /\ found = <<>>

procVars == <<dbOpen, limitConcurrent, stopped, active, pc, row, timer>>

\* ------------------------------------- the queue's API, called in sequence
\* q.enqueue(type, payload, {delaySec}) on an open store.
Enqueue(delaySec) ==
  /\ lastId < MaxJobs
  /\ dbOpen[1]
  /\ jobs' = enqueue(jobs, lastId + 1, now, delaySec)
  /\ lastId' = lastId + 1
  /\ UNCHANGED <<now, procVars, last, held, since, ret, storeVars, activity>>

\* q.claimNext(): SELECT, UPDATE and return in one synchronous call.
ClaimNext ==
  LET rows == selectNext(jobs, now, DefaultMaxAttempts)
  IN  IF rows = {}
      THEN /\ last' = Call("claimNext", Null)
           /\ UNCHANGED <<jobs, lastId, now, procVars, held, since, ret, storeVars, activity>>
      ELSE \E r \in rows :
             /\ jobs' = markRunning(jobs, r)
             /\ last' = Call("claimNext", r)
             /\ held' = [held EXCEPT ![r] = Bump(@)]
             /\ since' = [since EXCEPT ![r] = Bump(@)]
             /\ UNCHANGED <<lastId, now, procVars, ret, storeVars, activity>>

\* q.complete(id)
Complete(id) ==
  /\ jobs' = complete(jobs, id)
  /\ since' = [j \in JobIds |-> 0]
  /\ UNCHANGED <<lastId, now, procVars, last, held, ret, storeVars, activity>>

\* q.fail(id, requeue)
Fail(id, requeue) ==
  /\ attemptsOf(jobs, id) < MaxFails
  /\ jobs' = fail(jobs, id, now, requeue)
  /\ held' = [held EXCEPT ![id] = 0]
  /\ since' = [j \in JobIds |-> 0]
  /\ UNCHANGED <<lastId, now, procVars, last, ret, storeVars, activity>>

\* One second passes.  The clock counts up to MaxTime; from then on the
\* epoch moves instead: now stays and every stored timestamp is one second
\* older.  The code compares next_run_at only with now and created_at only
\* with created_at, so a timestamp at the epoch's start stands for "then or
\* before".
older(t) == Max(0, t - 1)

rebase(js) ==
  [j \in DOMAIN js |->
     [js[j] EXCEPT !.created_at = older(@), !.next_run_at = older(@)]]

\* activity_segments under the same shift; an ended_at of NULL stays NULL.
rebaseSegments(segs) ==
  [i \in DOMAIN segs |->
     [segs[i] EXCEPT !.started_at = older(@),
                     !.ended_at = IF @ = NullTime THEN @ ELSE older(@)]]

Tick ==
  /\ IF now < MaxTime
     THEN now' = now + 1 /\ UNCHANGED <<jobs, last, activity>>
     ELSE /\ now' = now /\ jobs' = rebase(jobs) /\ last' = [last EXCEPT !.at = older(@)]
          /\ activity' = [activity EXCEPT !.segments = rebaseSegments(@)]
  /\ UNCHANGED <<lastId, procVars, held, since, ret, storeVars>>

NextSeq ==
  \/ \E d \in Delays : Enqueue(d)
  \/ ClaimNext
  \/ \E id \in JobIds : Complete(id)
  \/ \E id \in JobIds, requeue \in BOOLEAN : Fail(id, requeue)
  \/ Tick

SpecSeq == Init /\ [][NextSeq]_vars

\* ------------------------------- the queue's API on a store that raises
\* enqueue when the INSERT throws, or the SELECT last_insert_rowid() after it.
EnqueueFault(delaySec, at) ==
  /\ lastId < MaxJobs
  /\ IF at = "insert"
     THEN UNCHANGED <<jobs, lastId>>
     ELSE jobs' = enqueue(jobs, lastId + 1, now, delaySec) /\ lastId' = lastId + 1
  /\ ret' = returned(TRUE)
  /\ UNCHANGED <<now, procVars, last, held, since, storeVars, activity>>

\* claimNext when its SELECT or its UPDATE throws.
ClaimNextFault ==
  /\ last' = Call("claimNext", Null)
  /\ ret' = returned(TRUE)
  /\ UNCHANGED <<jobs, lastId, now, procVars, held, since, storeVars, activity>>

\* complete when its DELETE throws.
CompleteFault ==
  /\ ret' = returned(TRUE)
  /\ UNCHANGED <<jobs, lastId, now, procVars, last, held, since, storeVars, activity>>

\* fail when its SELECT or its UPDATE throws.
FailFault ==
  /\ ret' = returned(TRUE)
  /\ UNCHANGED <<jobs, lastId, now, procVars, last, held, since, storeVars, activity>>

NextSeqFault ==
  \/ NextSeq
  \/ \E d \in Delays, at \in {"insert", "rowid"} : EnqueueFault(d, at)
  \/ ClaimNextFault
  \/ CompleteFault
  \/ FailFault

SpecSeqFault == Init /\ [][NextSeqFault]_vars

\* ------------------------------------------------------- startProcessor
\* app.whenReady: startProcessor(db, limitConcurrent, tickMs, handler).
StartProcessor(limit) ==
  /\ limitConcurrent = 0
  /\ limitConcurrent' = limit
  /\ timer' = [p \in Procs |-> TRUE]
  /\ UNCHANGED <<jobs, lastId, now, dbOpen, stopped, active, pc, row, last, held, since,
                 ret, storeVars, activity>>

\* A loop whose setTimeout stands inside the try block.
rescheduled_in_try(raised) == ~raised

\* loop's last statement, after the try/catch: setTimeout(loop, tickMs).
rescheduled(raised) == TRUE

\* A loop that lets one job too many through.
hasRoom_off_by_one(act) == Cardinality(act) <= limitConcurrent

\* loop's backpressure test: active.size < limitConcurrent.
hasRoom(act) == Cardinality(act) < limitConcurrent

\* loop's while: claim and dispatch until the limit is reached or claimNext
\* returns null.  The set of <<jobs, active>> the loop may end with; claimNext
\* on a closed connection throws inside its try and returns null.
RECURSIVE loop(_, _, _)
loop(js, act, open) ==
  LET rows == IF open THEN selectNext(js, now, DefaultMaxAttempts) ELSE {}
  IN  IF hasRoom(act) /\ rows # {}
      THEN UNION {loop(markRunning(js, r), act \cup {r}, open) : r \in rows}
      ELSE {<<js, act>>}

\* One timer tick of processor p in a process of its own: the whole of loop().
Loop(p) ==
  /\ limitConcurrent > 0
  /\ timer[p]
  /\ ~stopped[p]
  /\ \E res \in loop(jobs, active[p], dbOpen[p]) :
       /\ jobs' = res[1]
       /\ active' = [active EXCEPT ![p] = res[2]]
  /\ timer' = [timer EXCEPT ![p] = rescheduled(FALSE)]
  /\ UNCHANGED <<lastId, now, dbOpen, limitConcurrent, stopped, pc, row, last, held, since,
                 ret, storeVars, activity>>

Outcomes == {"true", "false", "throw"}

\* What the dispatch closure does to the table when the handler has ended:
\* complete on true, fail(id, true) on false and in the catch; both swallow
\* the exception a closed connection raises.
settle(js, id, outcome, open) ==
  IF ~open THEN js
  ELSE IF outcome = "true" THEN complete(js, id)
  ELSE fail(js, id, now, TRUE)

\* The handler of job id ends in process p; finally removes the id from active.
HandlerDone(p, id, outcome) ==
  /\ id \in active[p]
  /\ pc[p] = "idle"
  /\ jobs' = settle(jobs, id, outcome, dbOpen[p])
  /\ active' = [active EXCEPT ![p] = @ \ {id}]
  /\ UNCHANGED <<lastId, now, dbOpen, limitConcurrent, stopped, pc, row, last, held, since,
                 timer, ret, storeVars, activity>>

\* app.on('window-all-closed'): stop() and then db.close().
WindowAllClosed(p) ==
  /\ limitConcurrent > 0
  /\ ~stopped[p]
  /\ stopped' = [stopped EXCEPT ![p] = TRUE]
  /\ dbOpen' = [dbOpen EXCEPT ![p] = FALSE]
  /\ UNCHANGED <<jobs, lastId, now, limitConcurrent, active, pc, row, last, held, since,
                 timer, ret, storeVars, activity>>

\* The running application: one process, one processor.
Next ==
  \/ \E limit \in 1..MaxLimit : StartProcessor(limit)
  \/ \E d \in Delays : Enqueue(d)
  \/ Loop(1)
  \/ \E id \in JobIds, o \in Outcomes : HandlerDone(1, id, o)
  \/ WindowAllClosed(1)
  \/ Tick

Spec == Init /\ [][Next]_vars

\* The timer fires, handlers end and time passes.
SpecLive ==
  /\ Spec
  /\ WF_vars(Loop(1))
  /\ WF_vars(\E id \in JobIds, o \in Outcomes : HandlerDone(1, id, o))
  /\ WF_vars(Tick)

\* ------------------------------------- storage errors, stop and relaunch
\* loop's while when a claimNext inside it meets a storage error: claimNext
\* catches it and returns null, which ends the while like an empty queue.
\* The set of <<jobs, active>> such a tick may end with: the error strikes
\* at the first call of claimNext or at a later one.
RECURSIVE loopFault(_, _)
loopFault(js, act) ==
  LET rows == selectNext(js, now, DefaultMaxAttempts)
  IN  IF ~hasRoom(act) THEN {}
      ELSE {<<js, act>>} \cup
           UNION {loopFault(markRunning(js, r), act \cup {r}) : r \in rows}

\* A timer tick of processor p during which the store raises.
LoopFault(p) ==
  /\ limitConcurrent > 0
  /\ timer[p]
  /\ ~stopped[p]
  /\ \E res \in loopFault(jobs, active[p]) :
       /\ jobs' = res[1]
       /\ active' = [active EXCEPT ![p] = res[2]]
  /\ timer' = [timer EXCEPT ![p] = rescheduled(TRUE)]
  /\ ret' = returned(TRUE)
  /\ UNCHANGED <<lastId, now, dbOpen, limitConcurrent, stopped, pc, row, last, held, since,
                 storeVars, activity>>

\* The timer fires after stop(): loop returns at its first line and sets no
\* new timer.
LoopStopped(p) ==
  /\ timer[p]
  /\ stopped[p]
  /\ timer' = [timer EXCEPT ![p] = FALSE]
  /\ UNCHANGED <<jobs, lastId, now, dbOpen, limitConcurrent, stopped, active, pc, row,
                 last, held, since, ret, storeVars, activity>>

\* A startup that puts the rows left running back in the queue.
atStartup_requeueing(js) ==
  [j \in DOMAIN js |->
     IF js[j].status = "running" THEN [js[j] EXCEPT !.status = "queued"] ELSE js[j]]

\* What whenReady does to the jobs table before it starts the processor:
\* runMigrations creates what is missing, no statement writes a row.
atStartup(js) == js

\* The process ends (quit or crash) and the application is started again:
\* whenReady opens the database and calls startProcessor, whose active Set
\* is new and empty.
Relaunch(p) ==
  /\ limitConcurrent > 0
  /\ jobs' = atStartup(jobs)
  /\ dbOpen' = [dbOpen EXCEPT ![p] = TRUE]
  /\ stopped' = [stopped EXCEPT ![p] = FALSE]
  /\ active' = [active EXCEPT ![p] = {}]
  /\ timer' = [timer EXCEPT ![p] = TRUE]
  /\ UNCHANGED <<lastId, now, limitConcurrent, pc, row, last, held, since,
                 ret, storeVars, activity>>

\* The application over several runs, on a store that may raise.
NextOps ==
  \/ Next
  \/ LoopFault(1)
  \/ LoopStopped(1)
  \/ Relaunch(1)

SpecOps == Init /\ [][NextOps]_vars

\* ------------------------------- two application instances on one database
\* Nothing keeps a second instance from starting (no single-instance lock);
\* it opens the same recallos.sqlite3 over its own connection.  Each
\* statement is its own transaction, so the other process's statements may
\* come between claimNext's SELECT and its UPDATE.  Within a process the
\* call is synchronous: no handler of that process ends in between.

\* claimNext's SELECT in process p, reached from loop's while.
Select(p) ==
  /\ limitConcurrent > 0
  /\ ~stopped[p]
  /\ dbOpen[p]
  /\ pc[p] = "idle"
  /\ hasRoom(active[p])
  /\ \E r \in selectNext(jobs, now, DefaultMaxAttempts) :
       row' = [row EXCEPT ![p] = r]
  /\ pc' = [pc EXCEPT ![p] = "selected"]
  /\ UNCHANGED <<jobs, lastId, now, dbOpen, limitConcurrent, stopped, active, last, held, since,
                 timer, ret, storeVars, activity>>

\* claimNext's UPDATE and return; loop adds the id to active and starts the
\* handler.
Update(p) ==
  /\ pc[p] = "selected"
  /\ jobs' = markRunning(jobs, row[p])
  /\ active' = [active EXCEPT ![p] = @ \cup {row[p]}]
  /\ pc' = [pc EXCEPT ![p] = "idle"]
  /\ row' = [row EXCEPT ![p] = Null]
  /\ UNCHANGED <<lastId, now, dbOpen, limitConcurrent, stopped, last, held, since,
                 timer, ret, storeVars, activity>>

NextConc ==
  \/ \E limit \in 1..MaxLimit : StartProcessor(limit)
  \/ \E d \in Delays : Enqueue(d)
  \/ \E p \in Procs : Select(p)
  \/ \E p \in Procs : Update(p)
  \/ \E p \in Procs, id \in JobIds, o \in Outcomes : HandlerDone(p, id, o)
  \/ Tick

SpecConc == Init /\ [][NextConc]_vars

\* ------------------------------------------- the pipeline and its handler
\* What a handler run finds: ffmpeg and the job's own tool (tesseract for
\* ocr:frame, whisper for stt:chunk) missing, failing or working; how many
\* frames, words or segments the tools yield and their text; whether the
\* connection enforces foreign keys.
Tools == {"missing", "fails", "ok"}
Envs == [ffmpeg : Tools, tool : Tools, n : 0..MaxOut, text : Words, fk : BOOLEAN]

\* JSON.stringify(payload): what the handlers read back of it.  speaker is
\* payload.speaker || payload.audio_role, "" when the payload has neither.
Payload(chunk, ts_ms, speaker) == [chunk_id |-> chunk, ts_ms |-> ts_ms, speaker |-> speaker]

\* INSERT INTO jobs(type, payload_json, 'queued', 0, now, NULL, now): the
\* statement of q.enqueue(type, payload) and of saveChunk.
addJob(q, type, pl) ==
  LET id == q.lastId + 1
  IN  [jobs |-> enqueue(q.jobs, id, now, 0),
       lastId |-> id,
       payload |-> put(q.payload, id, [type |-> type] @@ pl),
       enq |-> [q.enq EXCEPT ![pl.chunk_id][type] = Bump(@)]]

\* index:chunk's loop over the frames: frame k is enqueued with ts_ms 5000
\* more than frame k - 1.
RECURSIVE addFrames(_, _, _, _)
addFrames(q, chunk, k, n) ==
  IF k > n THEN q
  ELSE addFrames(addJob(q, "ocr:frame", Payload(chunk, (k - 1) * FrameStepMs, "")),
                 chunk, k + 1, n)

\* extractFrames / extractAudioWav: { ok: false } when ffmpeg is missing and
\* when its run fails alike.
exOk(env) == env.ffmpeg = "ok"

\* The handler passed to startProcessor.  ok is its return value; an
\* exception inside it is caught by its outer try and returns false.
handler(q, t, id, env) ==
  LET job == q.payload[id]
      c == job.chunk_id
      speaker == IF job.speaker # "" THEN job.speaker ELSE "unknown"
      same == [q |-> q, t |-> t]
  IN  CASE job.type = "index:chunk" ->
             IF ~exOk(env) THEN [ok |-> TRUE] @@ same
             ELSE [ok |-> TRUE, t |-> t,
                   q |-> addJob(addFrames(q, c, 1, env.n), "stt:chunk", Payload(c, 0, ""))]
        [] job.type = "ocr:frame" ->
             IF env.tool = "missing" THEN [ok |-> TRUE] @@ same
             ELSE IF env.tool = "fails" THEN [ok |-> FALSE] @@ same
             ELSE LET r == insertRows(t, "ocr_blocks", c, job.ts_ms, "", env.text, 1, env.n,
                                      env.fk)
                  IN  [ok |-> r.ok, t |-> r.t, q |-> q]
        [] job.type = "stt:chunk" ->
             IF ~exOk(env) THEN [ok |-> TRUE] @@ same
             ELSE IF env.tool # "ok" THEN [ok |-> TRUE] @@ same
             ELSE LET r == insertRows(t, "transcripts", c, 0, speaker, env.text, 1, env.n,
                                      env.fk)
                  IN  [ok |-> TRUE, t |-> r.t, q |-> q]

\* recallos:saveChunk: the media_chunks row, then an index:chunk and an
\* stt:chunk job for it; the stt:chunk payload carries payload.audio_role.
SaveChunk(age, audio_role) ==
  /\ tables.seq.media_chunks < MaxChunks
  /\ dbOpen[1]
  /\ LET c == tables.seq.media_chunks + 1
         q == addJob(addJob([jobs |-> jobs, lastId |-> lastId, payload |-> payload,
                             enq |-> enq], "index:chunk", Payload(c, 0, "")),
                     "stt:chunk", Payload(c, 0, audio_role))
     IN  /\ tables' = [tables EXCEPT
                         !.media_chunks = put(@, c, [started_at |-> now - age * DaySecs]),
                         !.seq.media_chunks = c]
         /\ jobs' = q.jobs /\ lastId' = q.lastId /\ payload' = q.payload /\ enq' = q.enq
  /\ UNCHANGED <<now, procVars, last, held, since, ret, fts5, activity, searchVars>>

\* The dispatch closure for job id: the handler runs, then complete or
\* fail(id, true), then active.delete.
Handle(id, env) ==
  /\ id \in active[1]
  /\ id \in DOMAIN payload
  /\ LET r == handler([jobs |-> jobs, lastId |-> lastId, payload |-> payload, enq |-> enq],
                      tables, id, env)
         js == settle(r.q.jobs, id, IF r.ok THEN "true" ELSE "false", dbOpen[1])
     IN  /\ jobs' = js
         /\ payload' = [j \in DOMAIN js |-> r.q.payload[j]]
         /\ lastId' = r.q.lastId
         /\ enq' = r.q.enq
         /\ tables' = r.t
  /\ active' = [active EXCEPT ![1] = @ \ {id}]
  /\ UNCHANGED <<now, dbOpen, limitConcurrent, stopped, pc, row, last, held, since,
                 timer, ret, fts5, activity, searchVars>>

\* The retention timer or recallos:retention:run: doRetentionCleanup with
\* the retention_days setting.
RetentionCleanup(days) ==
  /\ dbOpen[1]
  /\ tables' = doRetentionCleanup(tables, days, now)
  /\ UNCHANGED <<jobs, lastId, now, procVars, last, held, since, ret, payload, fts5, enq, activity, searchVars>>

\* whenReady has run: migrations applied, with or without FTS5, and
\* startProcessor(db, 1, 1000, handler) called.
InitPipe ==
  /\ jobs = <<>>
  /\ lastId = 0
  /\ now = 0
  /\ dbOpen = [p \in Procs |-> TRUE]
  /\ limitConcurrent = 1
  /\ stopped = [p \in Procs |-> FALSE]
  /\ active = [p \in Procs |-> {}]
  /\ pc = [p \in Procs |-> "idle"]
  /\ row = [p \in Procs |-> Null]
  /\ last = NoCall
  /\ held = [j \in JobIds |-> 0]
  /\ since = [j \in JobIds |-> 0]
  /\ timer = [p \in Procs |-> TRUE]
  /\ ret = "none"
  /\ payload = <<>>
  /\ tables = NoRows
  /\ fts5 \in BOOLEAN
  /\ enq = NoneEnqueued
  /\ activity = NoActivity
  /\ asked = NoSearch
  /\ found = <<>>

NextPipe ==
  \/ \E age \in 0..MaxAge, audio_role \in Roles : SaveChunk(age, audio_role)
  \/ Loop(1)
  \/ \E id \in DOMAIN jobs, env \in Envs : Handle(id, env)
  \/ \E days \in 0..MaxDays : RetentionCleanup(days)
  \/ Tick

SpecPipe == InitPipe /\ [][NextPipe]_vars

\* ------------------------------------------------ the activity sampler
\* A firing of the sampler's timer (setTimeout(sample, 1000), then
\* setInterval(sample, 1500)) with the probe's answer.  The statements after
\* the await run without yielding.
Sample(info, fault) ==
  /\ activity.seq < MaxSegments
  /\ activity' = sample(activity, info, now, fault)
  /\ UNCHANGED <<jobs, lastId, now, procVars, last, held, since, ret, storeVars>>

\* The before-quit handler.  The sampler of the next launch, or a firing of
\* the interval before the process is gone, finds what it left.
BeforeQuit(threw) ==
  /\ activity' = beforeQuit(activity, now, threw)
  /\ UNCHANGED <<jobs, lastId, now, procVars, last, held, since, ret, storeVars>>

InitActivity ==
  /\ jobs = <<>>
  /\ lastId = 0
  /\ now = 0
  /\ dbOpen = [p \in Procs |-> TRUE]
  /\ limitConcurrent = 0
  /\ stopped = [p \in Procs |-> FALSE]
  /\ active = [p \in Procs |-> {}]
  /\ pc = [p \in Procs |-> "idle"]
  /\ row = [p \in Procs |-> Null]
  /\ last = NoCall
  /\ held = [j \in JobIds |-> 0]
  /\ since = [j \in JobIds |-> 0]
  /\ timer = [p \in Procs |-> FALSE]
  /\ ret = "none"
  /\ payload = <<>>
  /\ tables = NoRows
  /\ fts5 = TRUE
  /\ enq = NoneEnqueued
  /\ \E pf \in Platforms : activity = [NoActivity EXCEPT !.platform = pf]
  /\ asked = NoSearch
  /\ found = <<>>

NextActivity ==
  \/ \E info \in Infos, fault \in SampleFaults : Sample(info, fault)
  \/ \E threw \in BOOLEAN : BeforeQuit(threw)
  \/ Tick

SpecActivity == InitActivity /\ [][NextActivity]_vars

\* ----------------------------------------------------------- searching
\* What the store holds when a search is made: the texts OCR words and
\* transcript segments carry, the rows handler runs have written for chunk 1,
\* and the activity segments.
Speech == {<<"a", " ", "b">>, <<"b", " ", "a">>, <<"a">>}

RowInputs ==
  {[table |-> "ocr_blocks", r |-> rowOf("ocr_blocks", 1, ts_ms, "", w, 1)] :
     w \in Words, ts_ms \in {0, FrameStepMs}}
  \cup {[table |-> "transcripts", r |-> rowOf("transcripts", 1, 0, speaker, s, 1)] :
          s \in Speech, speaker \in {"me", "unknown"}}

RECURSIVE StoresAfter(_, _)
StoresAfter(t, n) ==
  IF n = 0 THEN {t}
  ELSE LET S == StoresAfter(t, n - 1)
       IN  S \cup {insertRow(s, i.table, i.r, FALSE).t : s \in S, i \in RowInputs}

\* q of the payload: a word, a phrase or a word, a word and the quoted word
\* OR and a word, two words, a phrase, a prefix.
Queries ==
  {<<"a">>,
   <<Quote, "a", " ", "b", Quote, " ", "O", "R", " ", "a">>,
   <<"a", " ", Quote, "O", "R", Quote, " ", "b">>,
   <<"b", " ", "a">>,
   <<Quote, "a", " ", "b", Quote>>,
   <<"a", "*">>}

\* -bm25(f) of the entries, in tenths.
Ranks == {[r \in 1..MaxRows |-> 0], [r \in 1..MaxRows |-> IF r = 1 THEN 1 ELSE 0]}

Asked(q, f, bm25) == [op |-> "search", q |-> q, f |-> f, bm25 |-> bm25, called |-> FALSE]

\* The renderer invokes recallos:search with the payload asked; found is
\* what it gets back.
Search ==
  /\ asked.op = "search"
  /\ found' \in results(tables, activity, asked.q, asked.f, asked.bm25)
  /\ asked' = [asked EXCEPT !.called = TRUE]
  /\ UNCHANGED <<jobs, lastId, now, procVars, last, held, since, ret, payload, tables, fts5,
                 enq, activity>>

InitSearch ==
  /\ jobs = <<>>
  /\ lastId = 0
  /\ now = MaxTime
  /\ dbOpen = [p \in Procs |-> TRUE]
  /\ limitConcurrent = 0
  /\ stopped = [p \in Procs |-> FALSE]
  /\ active = [p \in Procs |-> {}]
  /\ pc = [p \in Procs |-> "idle"]
  /\ row = [p \in Procs |-> Null]
  /\ last = NoCall
  /\ held = [j \in JobIds |-> 0]
  /\ since = [j \in JobIds |-> 0]
  /\ timer = [p \in Procs |-> FALSE]
  /\ ret = "none"
  /\ payload = <<>>
  /\ fts5 \in BOOLEAN
  /\ tables \in StoresAfter([NoRows EXCEPT !.media_chunks = put(@, 1, [started_at |-> 0]),
                                          !.seq.media_chunks = 1], MaxRows)
  /\ enq = NoneEnqueued
  /\ activity \in {NoActivity,
                   beforeQuit(sample(NoActivity, [app |-> <<"x">>, title |-> <<"a">>], 0,
                                     "none"), MaxTime, FALSE)}
  /\ \E q \in Queries, f \in Filters, bm25 \in Ranks :
       /\ f.from = 0
       /\ fts5 \/ bm25 = [r \in 1..MaxRows |-> 0]
       /\ asked = Asked(q, f, bm25)
  /\ found = <<>>

NextSearch == Search

SpecSearch == InitSearch /\ [][NextSearch]_vars

\* ----------------------------------------------- time-window snippets
\* 'the cat sat on the mat'
TheCat ==
  <<"t", "h", "e", " ", "c", "a", "t", " ", "s", "a", "t", " ", "o", "n", " ",
    "t", "h", "e", " ", "m", "a", "t">>

\* 'cat', a word of 2 * 30 letters, 'mat'
CatFarFromMat ==
  <<"c", "a", "t", " ">> \o [i \in 1..(2 * windowCharsOf(1)) |-> "x"] \o <<" ", "m", "a", "t">>

\* What whisper's segments say.
Segments == {TheCat, CatFarFromMat, <<"a", " ", "b", " ", "a">>, <<"b">>}

\* The transcripts of chunk 1 after an stt:chunk job with up to n segments.
RECURSIVE Transcribed(_, _)
Transcribed(t, n) ==
  IF n = 0 THEN {t}
  ELSE LET S == Transcribed(t, n - 1)
       IN  S \cup {insertRow(s, "transcripts",
                             rowOf("transcripts", 1, 0, "me", text, s.seq.transcripts + 1),
                             FALSE).t : s \in S, text \in Segments}

\* cat OR mat
CatOrMat == <<"c", "a", "t", " ", "O", "R", " ", "m", "a", "t">>

\* q of the payload: two words, a phrase and a word of it in either order,
\* two phrases that overlap in either order, a prefix.
SnippetQueries ==
  {CatOrMat,
   <<Quote, "a", " ", "b", Quote, " ", "b">>,
   <<"b", " ", Quote, "a", " ", "b", Quote>>,
   <<Quote, "b", " ", "a", Quote, " ", Quote, "a", " ", "b", Quote>>,
   <<Quote, "a", " ", "b", Quote, " ", Quote, "b", " ", "a", Quote>>,
   <<"c", "*">>}

\* recallos:searchSnippets has its rows and calls buildTimeSnippet(r) for the
\* row asked.r; found is the snippet.
TimeSnippet ==
  /\ asked.op = "snippet"
  /\ found' = buildTimeSnippet(tables, asked.r, trim(asked.q), asked.windowSecs,
                               windowCharsOf(asked.windowChars))
  /\ asked' = [asked EXCEPT !.called = TRUE]
  /\ UNCHANGED <<jobs, lastId, now, procVars, last, held, since, ret, payload, tables, fts5,
                 enq, activity>>

InitSnippet ==
  /\ jobs = <<>>
  /\ lastId = 0
  /\ now = 0
  /\ dbOpen = [p \in Procs |-> TRUE]
  /\ limitConcurrent = 0
  /\ stopped = [p \in Procs |-> FALSE]
  /\ active = [p \in Procs |-> {}]
  /\ pc = [p \in Procs |-> "idle"]
  /\ row = [p \in Procs |-> Null]
  /\ last = NoCall
  /\ held = [j \in JobIds |-> 0]
  /\ since = [j \in JobIds |-> 0]
  /\ timer = [p \in Procs |-> FALSE]
  /\ ret = "none"
  /\ payload = <<>>
  /\ fts5 = TRUE
  /\ tables \in Transcribed([NoRows EXCEPT !.media_chunks = put(@, 1, [started_at |-> 0]),
                                          !.seq.media_chunks = 1], MaxRows)
  /\ enq = NoneEnqueued
  /\ activity = NoActivity
  /\ \E q \in SnippetQueries, i \in DOMAIN tables.fts_content,
        windowSecs \in {0, 1}, windowChars \in {0, 1} :
       /\ match(tables.fts_content[i].content, q)
       /\ asked = [op |-> "snippet", q |-> q,
                   r |-> [type |-> tables.fts_content[i].type,
                          chunk_id |-> tables.fts_content[i].chunk_id,
                          ts_ms |-> tables.fts_content[i].ts_ms],
                   windowSecs |-> windowSecs, windowChars |-> windowChars, called |-> FALSE]
  /\ found = <<>>

NextSnippet == TimeSnippet

SpecSnippet == InitSnippet /\ [][NextSnippet]_vars

\* ------------------------------------------------ claims on the queue API
\* C1: a job claimNext returned is not returned again unless fail was called
\* on it in between, and the claimNext calls made since the last complete or
\* fail returned pairwise different jobs.
C1_ClaimExclusive == \A j \in JobIds : held[j] <= 1 /\ since[j] <= 1

\* Two jobs are out at once, one of them on a retry after a fail.
C1_Witness ==
  \E j, k \in DOMAIN jobs :
    /\ j # k
    /\ since[j] = 1 /\ since[k] = 1
    /\ jobs[j].status = "running" /\ jobs[k].status = "running"
    /\ jobs[j].attempts >= 1

\* C3: once a job has failed five times it is failed, and claimNext has not
\* returned it since, whatever the clock says.
C3_FailedIsFinal ==
  \A j \in DOMAIN jobs :
    jobs[j].attempts >= 5 => jobs[j].status = "failed" /\ held[j] = 0

\* A job failed five times, its next_run_at long past, and claimNext has since
\* handed out a younger job instead.
C3_Witness ==
  \E j, k \in DOMAIN jobs :
    /\ j # k
    /\ jobs[j].attempts = 5 /\ jobs[j].status = "failed"
    /\ jobs[j].next_run_at <= now
    /\ jobs[j].created_at <= jobs[k].created_at
    /\ since[k] = 1 /\ jobs[k].status = "running"

\* The k-th failure (k = 1..4), with requeue, of the running job j.
KthFailure(j) ==
  /\ Fail(j, TRUE)
  /\ statusOf(jobs, j) = "running"
  /\ attemptsOf(jobs, j) < 4

Requeued(j, from) ==
  /\ jobs'[j].status = "queued"
  /\ jobs'[j].attempts = jobs[j].attempts + 1
  /\ jobs'[j].next_run_at = from + Min(60, 2 ^ jobs'[j].attempts)

\* C4 as stated: the backoff is counted from the claim that started the attempt.
C4_BackoffFromClaim ==
  [][\A j \in JobIds :
       KthFailure(j) /\ last.op = "claimNext" /\ last.id = j => Requeued(j, last.at)]_vars

\* C4 amended: after its k-th failure (k = 1..4) a claimed job is queued with
\* attempts = k and next_run_at = the time of that failure + min(60, 2^k).
C4_BackoffFromFailure ==
  [][\A j \in JobIds : KthFailure(j) => Requeued(j, now)]_vars

\* A job claimed for its third attempt has just been requeued by its third
\* failure, a second or more after the claim.
C4_Witness ==
  \E j \in DOMAIN jobs :
    /\ jobs[j].status = "queued" /\ jobs[j].attempts = 3
    /\ jobs[j].next_run_at = now + 8
    /\ last.op = "claimNext" /\ last.id = j /\ last.att = 2 /\ last.at < now
    /\ held[j] = 0

\* C5: claimNext returns no job before its next_run_at, and returns a job
\* whenever one is queued or delayed with its next_run_at reached.
C5_NotBeforeNextRun ==
  [][ClaimNext =>
       IF last'.id # Null
       THEN jobs[last'.id].next_run_at <= now
       ELSE dueRows(jobs, now) = {}]_vars

\* A job that had to wait was claimed in the very second of its next_run_at.
C5_Witness ==
  \E j \in DOMAIN jobs :
    /\ last.op = "claimNext" /\ last.id = j
    /\ jobs[j].status = "running"
    /\ jobs[j].next_run_at = last.at
    /\ jobs[j].next_run_at > jobs[j].created_at

\* C7: claimNext returns the job that was enqueued first among those that
\* are due, also when they were enqueued within one second.
C7_StrictFifo ==
  [][ClaimNext /\ last'.id # Null =>
       \A k \in dueRows(jobs, now) : last'.id <= k]_vars

C13_FailedIsTerminal ==
  [][\A j \in JobIds :
       statusOf(jobs, j) = "failed" =>
         statusOf(jobs', j) \notin {"queued", "delayed", "running"}]_vars

\* ------------------------------------------------ claims on the processor
\* C2: no job is in flight in two processors at once.
C2_ClaimedByOne == active[1] \cap active[2] = {}

Recorded(id) ==
  /\ HandlerDone(1, id, "true") => id \notin DOMAIN jobs'
  /\ HandlerDone(1, id, "false") \/ HandlerDone(1, id, "throw") =>
       /\ id \in DOMAIN jobs /\ id \in DOMAIN jobs'
       /\ jobs'[id].attempts = jobs[id].attempts + 1

\* C6: while the processor runs, every job in the table is eventually
\* deleted or failed.
C6_EveryJobSettles ==
  \A j \in JobIds :
    (j \in DOMAIN jobs /\ limitConcurrent > 0) ~>
      (j \notin DOMAIN jobs \/ jobs[j].status = "failed" \/ stopped[1])

\* The processor, still running, has just given a job up at its fifth failure.
C6_Witness ==
  /\ limitConcurrent > 0 /\ ~stopped[1]
  /\ \E j \in DOMAIN jobs : jobs[j].status = "failed" /\ jobs[j].attempts = 5

\* C8: when a handler ends, true deletes the job's row and false or a throw
\* raises its attempts by exactly one.
C8_OutcomeApplied == [][\A id \in JobIds : Recorded(id)]_vars

\* C9: a processor never has more jobs in flight than limitConcurrent.
C9_AtMostLimit == \A p \in Procs : Cardinality(active[p]) <= limitConcurrent

\* The processor is full while another job is due.
C9_Witness ==
  /\ limitConcurrent > 0 /\ ~stopped[1]
  /\ Cardinality(active[1]) = limitConcurrent
  /\ dueRows(jobs, now) # {}

\* C10: once stopped, the processor takes no further job, and the handlers
\* still in flight have their outcome applied to the job when they end.
C10_StopKeepsOutcomes ==
  [][stopped[1] =>
       /\ active'[1] \subseteq active[1]
       /\ \A id \in active[1] \ active'[1] : Recorded(id)]_vars

\* C11: while the processor is not stopped a call of loop is always pending,
\* also after a tick in which claimNext met a storage error, and a handler
\* that throws costs its job one attempt and leaves the timer set.
C11_AlwaysRescheduled ==
  [][/\ limitConcurrent' > 0 /\ ~stopped'[1] => timer'[1]
     /\ Loop(1) \/ LoopFault(1) => timer'[1]
     /\ \A id \in JobIds :
          ~stopped[1] /\ HandlerDone(1, id, "throw") =>
            /\ id \in DOMAIN jobs /\ id \in DOMAIN jobs'
            /\ jobs'[id].attempts = jobs[id].attempts + 1
            /\ timer'[1]]_vars

\* After a tick that met a storage error and a failed run, the loop is still
\* scheduled and a job is in flight again.
C11_Witness ==
  /\ ret = "null"
  /\ limitConcurrent > 0 /\ ~stopped[1] /\ timer[1]
  /\ \E j \in active[1] : jobs[j].attempts >= 1

\* C14: a job in status running that no handler of the current process holds
\* stays running and is never dispatched again, whatever the clock says and
\* however often the application is started.
C14_RunningStaysRunning ==
  [][\A j \in JobIds :
       statusOf(jobs, j) = "running" /\ j \notin active[1] =>
         statusOf(jobs', j) = "running" /\ j \notin active'[1]]_vars

\* After a relaunch the processor has dispatched a younger job and left the
\* orphaned one, long due, alone.
C14_Witness ==
  /\ limitConcurrent > 0 /\ ~stopped[1] /\ dbOpen[1] /\ timer[1]
  /\ \E j, k \in DOMAIN jobs :
       /\ jobs[j].status = "running" /\ j \notin active[1]
       /\ jobs[j].next_run_at <= now
       /\ k \in active[1]
       /\ jobs[j].created_at <= jobs[k].created_at

\* ------------------------------------------------- claims on the pipeline
\* The job's tool is installed and its run fails: frame extraction, OCR,
\* audio extraction, transcription.
InvocationFails(type, env) ==
  \/ type = "index:chunk" /\ env.ffmpeg = "fails"
  \/ type = "ocr:frame" /\ env.tool = "fails"
  \/ type = "stt:chunk" /\ env.ffmpeg = "fails"
  \/ type = "stt:chunk" /\ env.ffmpeg = "ok" /\ env.tool = "fails"

\* The tool the job needs first is not installed.
NotInstalled(type, env) ==
  \/ type = "index:chunk" /\ env.ffmpeg = "missing"
  \/ type = "ocr:frame" /\ env.tool = "missing"
  \/ type = "stt:chunk" /\ env.ffmpeg = "missing"
  \/ type = "stt:chunk" /\ env.ffmpeg = "ok" /\ env.tool = "missing"

\* C15: a handler run whose tool is installed but fails costs the job an
\* attempt and leaves it in the table for a retry; a run whose tool is not
\* installed completes the job.
C15_ToolFailureRetried ==
  [][\A id \in DOMAIN jobs, env \in Envs :
       Handle(id, env) =>
         /\ InvocationFails(payload[id].type, env) =>
              id \in DOMAIN jobs' /\ jobs'[id].attempts = jobs[id].attempts + 1
         /\ NotInstalled(payload[id].type, env) => id \notin DOMAIN jobs']_vars

\* C16: a chunk for which an ocr:frame job was enqueued has had exactly one
\* stt:chunk job enqueued.
C16_OneSttPerChunk ==
  \A c \in ChunkIds : enq[c]["ocr:frame"] >= 1 => enq[c]["stt:chunk"] = 1

\* Every row of the table has the index entry with its rowid, text, kind,
\* chunk and time.
Mirrored(table) ==
  \A i \in DOMAIN tables[table] :
    /\ i \in DOMAIN tables.fts_content
    /\ tables.fts_content[i] =
         [content |-> tables[table][i].text, type |-> kindOf(table),
          chunk_id |-> tables[table][i].chunk_id, ts_ms |-> tables[table][i].ts_ms]

\* C17: with the index enabled every OCR block and every transcript row has
\* its own index entry.
C17_EveryRowMirrored == fts5 => Mirrored("ocr_blocks") /\ Mirrored("transcripts")

\* Two transcript rows were inserted and each has its entry.
C17_Witness ==
  /\ fts5
  /\ Cardinality(DOMAIN tables.transcripts) >= 2
  /\ \A i \in DOMAIN tables.transcripts : tables.fts_content[i].type = "transcript"

tableOf(type) == IF type = "ocr:frame" THEN "ocr_blocks" ELSE "transcripts"

\* The run reaches its INSERT with a row to write, and the chunk is there.
Inserts(id, env) ==
  /\ env.n >= 1 /\ env.tool = "ok"
  /\ payload[id].type = "stt:chunk" => env.ffmpeg = "ok"
  /\ payload[id].type # "index:chunk"
  /\ payload[id].chunk_id \in DOMAIN tables.media_chunks

\* The index already holds the rowid the table's next row gets.
IndexRefuses(table) == fts5 /\ (tables.seq[table] + 1) \in DOMAIN tables.fts_content

\* C18: an INSERT whose index entry cannot be written still commits its row.
C18_BaseInsertSurvives ==
  [][\A id \in DOMAIN jobs, env \in Envs :
       Handle(id, env) /\ Inserts(id, env) /\ IndexRefuses(tableOf(payload[id].type)) =>
         Cardinality(DOMAIN tables'[tableOf(payload[id].type)]) >
           Cardinality(DOMAIN tables[tableOf(payload[id].type)])]_vars

\* C19: after retention cleanup nothing of a chunk it deleted is left: no
\* OCR block, no transcript row, no index entry, no search hit.
C19_CleanupRemovesAll ==
  [][\A days \in 0..MaxDays :
       RetentionCleanup(days) =>
         \A c \in DOMAIN tables.media_chunks \ DOMAIN tables'.media_chunks :
           /\ \A i \in DOMAIN tables'.ocr_blocks : tables'.ocr_blocks[i].chunk_id # c
           /\ \A i \in DOMAIN tables'.transcripts : tables'.transcripts[i].chunk_id # c
           /\ \A i \in DOMAIN tables'.fts_content : tables'.fts_content[i].chunk_id # c
           /\ \A q \in Words, f \in Filters :
                \A h \in search(tables', q, f) : h.chunk_id # c]_vars

\* The hit is a row of its table, with that text.
LiveRow(h) ==
  LET table == IF h.type = "ocr" THEN "ocr_blocks" ELSE "transcripts"
  IN  h.rowid \in DOMAIN tables[table] /\ tables[table][h.rowid].text = h.content

\* C20: whatever the indexed search finds among the rows of the store, the
\* fallback search finds on the same store with the same query and filters.
C20_FallbackCovers ==
  \A q \in Words, f \in Filters :
    \A h \in searchIndexed(tables, q, f) : LiveRow(h) => h \in searchFallback(tables, q, f)

\* C28: every OCR block and every transcript row belongs to a chunk that is
\* still in media_chunks: no handler run stores a row for a chunk retention
\* cleanup has deleted.
C28_NoRowForDeletedChunk ==
  \A table \in {"ocr_blocks", "transcripts"} :
    \A i \in DOMAIN tables[table] : tables[table][i].chunk_id \in DOMAIN tables.media_chunks

\* Two rows hold the same extracted item: the same word of the same frame, or
\* the same segment of the same chunk's audio.
SameItem(table, a, b) ==
  /\ a.chunk_id = b.chunk_id /\ a.ts_ms = b.ts_ms /\ a.text = b.text
  /\ table = "ocr_blocks" => a.bbox_x = b.bbox_x

\* C29: no extracted item is stored twice, whatever jobs were enqueued for
\* its chunk and however often they ran.
C29_StoredOnce ==
  \A table \in {"ocr_blocks", "transcripts"} :
    \A i, j \in DOMAIN tables[table] :
      i # j => ~SameItem(table, tables[table][i], tables[table][j])

\* --------------------------------------------- claims on activity segments
OpenSegments == {i \in DOMAIN activity.segments : activity.segments[i].ended_at = NullTime}

\* C27: at most one activity segment has a null end time.
C27_AtMostOneOpen == Cardinality(OpenSegments) <= 1

\* A second segment was started while the first was open, and a third after
\* a quit: one is open, two are closed.
C27_Witness ==
  /\ Cardinality(DOMAIN activity.segments) = 3
  /\ Cardinality(OpenSegments) = 1
  /\ \E i \in DOMAIN activity.segments :
       activity.segments[i].ended_at # NullTime
       /\ activity.segments[i].ended_at > activity.segments[i].started_at

\* ------------------------------------------------------ claims on search
\* A call of recallos:search has returned found for the payload asked.
Answered == asked.op = "search" /\ asked.called

\* C21: with a speaker filter every returned row is a transcript row of that
\* speaker and no OCR row is returned, whether the FTS5 branch or the LIKE
\* branch answers.
C21_SpeakerFilterHolds ==
  (Answered /\ asked.f.speaker # "") =>
    \A i \in DOMAIN found :
      /\ found[i].type = "transcript"
      /\ found[i].rowid \in DOMAIN tables.transcripts
      /\ tables.transcripts[found[i].rowid].speaker = asked.f.speaker

\* C30: when the LIKE branch runs its statement, every positional parameter
\* gets the value its placeholder is written for.
C30_ArgsMatchPlaceholders ==
  (Answered /\ trim(asked.q) # <<>> /\ ~indexed(asked.q) /\ applyDateJoin(asked.f)) =>
    argsAll(trim(asked.q), asked.f) = placeholdersAll(trim(asked.q), asked.f)

\* The row's text holds the first quoted phrase of q.
HoldsPhrase(r) == isInfix(toUpperCase(exactPhrase(trim(asked.q))), toUpperCase(r.content))

\* C23: the 0.5 of the phrase term is in a returned row's score exactly when
\* the row holds the first quoted phrase of q; and of two returned rows with
\* equal relevance, recency and window terms, the one that holds the phrase
\* scores exactly 0.5 more than the one that does not, and comes before it.
C23_PhraseBonus ==
  (Answered /\ exactPhrase(trim(asked.q)) # <<>>) =>
    /\ \A i \in DOMAIN found : found[i].parts.phrase <=> HoldsPhrase(found[i])
    /\ \A i, j \in DOMAIN found :
         ( /\ HoldsPhrase(found[i]) /\ ~HoldsPhrase(found[j])
           /\ found[i].parts.relevance = found[j].parts.relevance
           /\ found[i].parts.recency = found[j].parts.recency
           /\ found[i].parts.window = found[j].parts.window )
         => found[i].score = plus(found[j].score, 5) /\ i < j

\* q read as the claim reads it: a quoted run is one token, taken literally;
\* a bare AND or OR is an operator; any other bare run is a word.
RECURSIVE literalTokensFrom(_, _)
literalTokensFrom(input, i) ==
  IF i > Len(input) THEN <<>>
  ELSE IF input[i] = " " THEN literalTokensFrom(input, i + 1)
  ELSE IF input[i] = Quote
  THEN LET j == indexFrom(input, Quote, i + 1)
       IN  <<[op |-> "", pat |-> containing(trim(SubSeq(input, i + 1, j - 1)))]>>
           \o literalTokensFrom(input, j + 1)
  ELSE LET j == indexFrom(input, " ", i)
           buf == SubSeq(input, i, j - 1)
       IN  <<IF toUpperCase(buf) = AND THEN [op |-> "AND", pat |-> <<>>]
             ELSE IF toUpperCase(buf) = OR THEN [op |-> "OR", pat |-> <<>>]
             ELSE [op |-> "", pat |-> patOf(buf)]>>
           \o literalTokensFrom(input, j)

\* text satisfies q in disjunctive normal form: every token of some group.
Satisfies(text, q) ==
  LET groups == SelectSeq(ftsSplit(literalTokensFrom(q, 1)), LAMBDA g : g # <<>>)
  IN  \E k \in 1..Len(groups) : \A n \in 1..Len(groups[k]) : like(text, groups[k][n].pat)

\* The rows of the tables the type filter selects whose chunk passes the date
\* filter and whose text satisfies q.
Satisfying(q, f) ==
  UNION {{[type |-> kindOf(tableOfAlias(alias)), rowid |-> r] :
            r \in {x \in DOMAIN tables[tableOfAlias(alias)] :
                     LET b == tables[tableOfAlias(alias)][x]
                     IN  /\ b.chunk_id \in DOMAIN tables.media_chunks
                         /\ applyDateWhere(f, tables.media_chunks[b.chunk_id].started_at)
                         /\ Satisfies(b.text, q)}} :
           alias \in {x \in {"o", "t"} : selects(x, f)}}

\* C24: in the LIKE branch a row is a hit exactly when its text satisfies the
\* query in disjunctive normal form, a quoted phrase being one token that is
\* matched literally, never split and never read as AND or OR.
C24_FallbackHitsSatisfy ==
  ( /\ Answered /\ trim(asked.q) # <<>> /\ ~indexed(asked.q)
    /\ asked.f.to # 0 /\ asked.f.speaker = "" /\ asked.f.app = <<>> /\ asked.f.window = <<>> )
  => {[type |-> found[i].type, rowid |-> found[i].rowid] : i \in DOMAIN found}
       = Satisfying(trim(asked.q), asked.f)

\* ORDER BY score DESC, row id DESC holds of the sequence s.
ScoreThenRowId(s) ==
  \A i, j \in DOMAIN s :
    i < j => \/ scoreLess(s[j].score, s[i].score)
             \/ sameScore(s[i], s[j]) /\ s[i].rowid > s[j].rowid

\* C22: whichever branch answers, the rows come by score, highest first, and
\* by row id, highest first, among equal scores; a repeated call on the same
\* store returns the same sequence.
C22_OrderedAndRepeatable ==
  [][Search => /\ ScoreThenRowId(found')
               /\ asked.called => found' = found]_vars

\* ---------------------------------------------------- claims on snippets
\* buildTimeSnippet has returned the snippet found for the payload asked.
Snipped == asked.op = "snippet" /\ asked.called /\ ~found.isNull

Gathered == combinedRaw(tables, asked.r, asked.windowSecs)

Asking == extractTokens(trim(asked.q))

\* The offsets of the text's characters that stand between [ and ] in the
\* snippet s.
Bracketed(s) ==
  {Cardinality({k \in 1..(i - 1) : s[k] # "[" /\ s[k] # "]"}) :
     i \in {n \in 1..Len(s) :
              /\ s[n] # "[" /\ s[n] # "]"
              /\ \E k \in 1..(n - 1) :
                   s[k] = "[" /\ \A m \in (k + 1)..(n - 1) : s[m] # "]"}}

Unbracketed(s) == SelectSeq(s, LAMBDA c : c # "[" /\ c # "]")

\* 'the [cat] sat on the [mat]'
TheCatSnippet ==
  <<"t", "h", "e", " ", "[", "c", "a", "t", "]", " ", "s", "a", "t", " ", "o", "n", " ",
    "t", "h", "e", " ", "[", "m", "a", "t", "]">>

\* What stands between each [ of the snippet s and the ] after it, in order.
BracketedRuns(s) ==
  LET opens == SelectSeq([i \in 1..Len(s) |-> i], LAMBDA i : s[i] = "[")
  IN  [k \in 1..Len(opens) |-> SubSeq(s, opens[k] + 1, indexFrom(s, "]", opens[k] + 1) - 1)]

\* Every occurrence of the token tk in text, as a range.
Occurrences(text, tk) ==
  LET at == SelectSeq([i \in 1..(Len(text) + 1) |-> i - 1], LAMBDA p : matchAt(text, tk, p))
  IN  [k \in 1..Len(at) |-> <<at[k], matchEnd(text, tk, at[k])>>]

RECURSIVE AllOccurrences(_, _)
AllOccurrences(text, tokens) ==
  IF tokens = <<>> THEN <<>>
  ELSE Occurrences(text, Head(tokens)) \o AllOccurrences(text, Tail(tokens))

\* C25: a time-window snippet holds, between brackets, every occurrence of
\* every token and phrase of the query in the gathered text, not the first
\* only; for 'the cat sat on the mat' and cat OR mat it is 'the [cat] sat on
\* the [mat]'.
C25_EveryOccurrenceBracketed ==
  Snipped =>
    LET all == mergeRanges(AllOccurrences(Gathered, Asking))
    IN  /\ BracketedRuns(found.snippet)
             = [k \in 1..Len(all) |-> slice(Gathered, all[k][1], all[k][2])]
        /\ (Gathered = TheCat /\ asked.q = CatOrMat) => found.snippet = TheCatSnippet

\* The offsets the ranges rs hold.
Covered(rs) == UNION {rs[k][1]..(rs[k][2] - 1) : k \in 1..Len(rs)}

\* The orderings of the sequence s.
Reordered(s) ==
  {[i \in 1..Len(s) |-> s[f[i]]] :
     f \in {g \in [1..Len(s) -> 1..Len(s)] : \A i, j \in 1..Len(s) : i # j => g[i] # g[j]}}

\* C26: the bracketed ranges are the same for every ordering of the tokens,
\* no two of them overlap, and together they hold exactly the offsets some
\* token matches, so that a character matched by several tokens stands
\* between brackets once.
C26_MergedRanges ==
  Snipped =>
    LET merged == mergeRanges(rangesOf(Gathered, Asking))
    IN  /\ \A tokens \in Reordered(Asking) :
             /\ mergeRanges(rangesOf(Gathered, tokens)) = merged
             /\ highlightAll(Gathered, tokens) = highlightAll(Gathered, Asking)
        /\ \A i, j \in 1..Len(merged) :
             i # j => merged[i][2] <= merged[j][1] \/ merged[j][2] <= merged[i][1]
        /\ Covered(merged) = Covered(rangesOf(Gathered, Asking))
        /\ Bracketed(highlightAll(Gathered, Asking)) = Covered(rangesOf(Gathered, Asking))
        /\ Unbracketed(highlightAll(Gathered, Asking)) = Gathered

\* A snippet was built where matches of two tokens overlap, one beginning
\* inside the other, the later one pushed first.
C26_Witness ==
  /\ Snipped
  /\ \E k, n \in 1..Len(Asking) :
       /\ k < n
       /\ \E a \in 1..Len(matchesFrom(Gathered, Asking[k], 0)),
             b \in 1..Len(matchesFrom(Gathered, Asking[n], 0)) :
            LET x == matchesFrom(Gathered, Asking[k], 0)[a]
                y == matchesFrom(Gathered, Asking[n], 0)[b]
            IN  y[1] < x[1] /\ x[1] < y[2] /\ y[2] < x[2]
====
